---- MODULE Spec2Model ----
(***************************************************************************)
(* A model of the simplefeatures geometry library: the bulk-loaded R-tree, *)
(* the LineString constructor and simplicity predicate, the Polygon and    *)
(* MultiPolygon constructors and the Intersects dispatch.                  *)
(*                                                                         *)
(* Coordinates are integers of a small grid.  Points computed by the       *)
(* library (segment intersections, midpoints) are exact rationals, kept    *)
(* as [x, y, d] with x/d and y/d the ordinates, d > 0, in lowest terms.    *)
(* Go indexes from 0; sequences here index from 1, so seq.GetXY(i) is      *)
(* seq[i + 1].                                                             *)
(***************************************************************************)
EXTENDS Integers, Sequences, FiniteSets, TLC

(***************************************************************************)
(* Bounds of the model.                                                    *)
(***************************************************************************)
MaxItems == 8
\* The largest item count calculateLevels is asked about.
MaxCount == 65
\* The most points of a sequence handed to NewLineString with options.
MaxCtorPts == 3
\* The most points of a LineString that IsSimple is asked about.
MaxPts == 6
\* The most holes of a Polygon handed to NewPolygon.
MaxHoles == 2
\* The most Polygons of a list handed to NewMultiPolygon.
MaxPolys == 2
\* The most members of a GeometryCollection handed to Intersects.
MaxMembers == 2

(***************************************************************************)
(* The state: the arguments and the results of the calls under study.      *)
(***************************************************************************)
VARIABLES
  nodePool,   \* the node nodePool.Get() returns
  rtItems,    \* the items of the last BulkLoad, in the caller's order
  tree,       \* the tree BulkLoad returned
  query,      \* the box of the last RangeSearch
  visited,    \* the record IDs the last RangeSearch handed to its callback
  rtDone      \* "load" or "search": the last operation

rtVars == <<nodePool, rtItems, tree, query, visited, rtDone>>

VARIABLES
  input,      \* the sequence handed to NewLineString
  opts,       \* the constructor options of the call
  ls,         \* the LineString NewLineString returned
  err,        \* the error NewLineString returned, "nil" when none
  simple,     \* what IsSimple returned for ls
  lsDone      \* "input", "new" or "simple": the last operation

lsVars == <<input, opts, ls, err, simple, lsDone>>

VARIABLES
  outerRing,  \* the outer ring handed to NewPolygon
  holeRings,  \* the holes handed to NewPolygon
  newPoly,    \* the Polygon NewPolygon returned
  polyErr,    \* the error NewPolygon returned, "nil" when none
  polyDone    \* "input" or "new"

polyVars == <<outerRing, holeRings, newPoly, polyErr, polyDone>>

VARIABLES
  polyList,   \* the list of Polygons handed to NewMultiPolygon
  mp,         \* the MultiPolygon NewMultiPolygon returned
  mpErr,      \* the error NewMultiPolygon returned, "nil" when none
  mpDone,     \* "input" or "new"
  coords,     \* the coordinates handed to NewPointC
  newPt,      \* the Point NewPointC returned
  ptErr,      \* the error of the Point constructor, "nil" when none
  ptDone      \* "input" or "new"

mpVars == <<polyList, mp, mpErr, mpDone>>

ptVars == <<coords, newPt, ptErr, ptDone>>

VARIABLES
  ga,         \* the geometry Intersects is called on
  gb,         \* the geometry Intersects is called with
  hit,        \* what ga.Intersects(gb) returned, "none" before the call
  hitSwapped  \* what gb.Intersects(ga) returned, "none" before the call

intVars == <<ga, gb, hit, hitSwapped>>

VARIABLES
  cur,        \* the multiPoint or geometryCollection under study
  ctParts,      \* the list handed to the constructor that made it
  ctOp,       \* the last operation on it, "none" before the first
  ctSteps     \* how many operations there have been

ctVars == <<cur, ctParts, ctOp, ctSteps>>

VARIABLES
  arrays,     \* the backing arrays of the slices in play, by their number
  callerRef,  \* the array of the slice the caller handed to the constructor
  geomRef,    \* the array of the slice the constructed geometry holds
  dumpRef,    \* the array of the slice Dump returned, 0 before Dump
  made,       \* the variant constructed, "none" before
  reported    \* the children the geometry had when the constructor returned

imVars == <<arrays, callerRef, geomRef, dumpRef, made, reported>>

VARIABLES
  gjGeom,   \* the Geometry MarshalJSON was called on
  doc,      \* the GeoJSON object written or received
  parsed,   \* what UnmarshalGeoJSON returned: a Geometry and an error
  gjStage   \* "start", then "written" or "received", then "read"

gjVars == <<gjGeom, doc, parsed, gjStage>>

VARIABLES
  ecKind,   \* the variant a constructor is called for
  ecList,   \* the list the constructor is called with
  ecOpts,   \* the options it is called with
  ecOut,    \* what the call gave: error, number of children, emptiness, type
  ecDone    \* "input" before the call, "new" after it

ecVars == <<ecKind, ecList, ecOpts, ecOut, ecDone>>

VARIABLES
  subject,  \* the geometry a method is called on
  accOp,    \* the method called, "none" before the call
  accEnv,   \* what Envelope returned
  accPt     \* what PointOnSurface returned

accVars == <<subject, accOp, accEnv, accPt>>

VARIABLES
  treeLines, \* the lines hasIntersectionBetweenLines puts into the tree
  probeLines, \* the lines it searches the tree with
  populate,  \* the populateExtension argument of the call
  blOut,     \* what the call returned: the flag and the extension
  blDone     \* "input" before the call, "called" after it

blVars == <<treeLines, probeLines, populate, blOut, blDone>>

vars == <<rtVars, lsVars, polyVars, mpVars, ptVars, intVars, ctVars, imVars, gjVars, ecVars, accVars, blVars>>

(***************************************************************************)
(* Small helpers.                                                          *)
(***************************************************************************)
Min2(a, b) == IF a < b THEN a ELSE b
Max2(a, b) == IF a > b THEN a ELSE b
Abs(a) == IF a < 0 THEN 0 - a ELSE a

(***************************************************************************)
(* rtree: boxes, nodes and the node pool.                                  *)
(***************************************************************************)
\* The largest number of entries of a node.
maxChildren == 4

NewBox(minX, minY, maxX, maxY) ==
  [MinX |-> minX, MinY |-> minY, MaxX |-> maxX, MaxY |-> maxY]

\* The smallest box that holds both boxes.
combine(a, b) ==
  NewBox(Min2(a.MinX, b.MinX), Min2(a.MinY, b.MinY),
         Max2(a.MaxX, b.MaxX), Max2(a.MaxY, b.MaxY))

\* Two boxes share a point (touching boxes do).
overlap(a, b) ==
  /\ a.MinX <= b.MaxX
  /\ b.MinX <= a.MaxX
  /\ a.MinY <= b.MaxY
  /\ b.MinY <= a.MaxY

\* The nil *node: the child of a leaf entry, the root of an empty tree.
NilNode == [isLeaf |-> FALSE, numEntries |-> 0, entries |-> <<>>]

\* The zero value of an entry.
ZeroEntry == [box |-> NewBox(0, 0, 0, 0), recordID |-> 0, child |-> NilNode]

\* new(node): what the pool hands out when it holds no released node.
NewNode ==
  [isLeaf |-> FALSE, numEntries |-> 0,
   entries |-> [i \in 1..(1 + maxChildren) |-> ZeroEntry]]

RECURSIVE boundUpTo(_, _)
boundUpTo(n, k) ==
  IF k = 1 THEN n.entries[1].box
  ELSE combine(boundUpTo(n, k - 1), n.entries[k].box)

\* The bounding box of the entries a node holds.
calculateBound(n) == boundUpTo(n, n.numEntries)

RECURSIVE calculateLevelsLoop(_, _, _)
calculateLevelsLoop(levels, count, numItems) ==
  IF count < numItems
    THEN calculateLevelsLoop(levels + 1, count * maxChildren, numItems)
    ELSE levels

\* calculateLevels with the count starting at one item, not at one node.
calculateLevelsFromOne(numItems) == calculateLevelsLoop(1, 1, numItems)

calculateLevels(numItems) == calculateLevelsLoop(1, maxChildren, numItems)

\* bulkItems.Less: order by the middle of the box along the chosen axis.
Less(horizontal, bi, bj) ==
  IF horizontal
    THEN bi.MinX + bi.MaxX < bj.MinX + bj.MaxX
    ELSE bi.MinY + bi.MaxY < bj.MinY + bj.MaxY

RECURSIVE combineItems(_, _)
combineItems(items, k) ==
  IF k = 1 THEN items[1].Box
  ELSE combine(combineItems(items, k - 1), items[k].Box)

RECURSIVE insertItem(_, _, _)
\* One pass of the insertion sort: the item moves left while it is less
\* than its predecessor.
insertItem(horizontal, sorted, item) ==
  IF sorted = <<>> THEN <<item>>
  ELSE IF Less(horizontal, item.Box, sorted[Len(sorted)].Box)
    THEN Append(insertItem(horizontal, SubSeq(sorted, 1, Len(sorted) - 1), item),
                sorted[Len(sorted)])
    ELSE Append(sorted, item)

RECURSIVE insertionSort(_, _, _)
insertionSort(horizontal, items, k) ==
  IF k = 0 THEN <<>>
  ELSE insertItem(horizontal, insertionSort(horizontal, items, k - 1), items[k])

\* sortBulkItems: sort.Sort along the longer side of the items' bounding
\* box.  sort.Sort orders a slice of at most 12 elements by insertion sort,
\* which is what every slice of this model gets.
sortBulkItems(items) ==
  LET box == combineItems(items, Len(items))
      horizontal == box.MaxX - box.MinX > box.MaxY - box.MinY
  IN  insertionSort(horizontal, items, Len(items))

\* splitBulkItems2Ways with the cut one item late.
splitBulkItems2WaysLateCut(items) ==
  LET sorted == sortBulkItems(items)
      split == Len(items) \div 2 + 1
  IN  <<SubSeq(sorted, 1, split), SubSeq(sorted, split + 1, Len(sorted))>>

splitBulkItems2Ways(items) ==
  LET sorted == sortBulkItems(items)
      split == Len(items) \div 2
  IN  <<SubSeq(sorted, 1, split), SubSeq(sorted, split + 1, Len(sorted))>>

\* splitBulkItems3Ways with the last slice cut one item late.
splitBulkItems3WaysLateCut(items) ==
  LET sorted == sortBulkItems(items)
      third == Len(items) \div 3
  IN  <<SubSeq(sorted, 1, third),
        SubSeq(sorted, third + 1, third + third),
        SubSeq(sorted, third + third + 2, Len(sorted))>>

splitBulkItems3Ways(items) ==
  LET sorted == sortBulkItems(items)
      third == Len(items) \div 3
      remaining == (Len(items) \div 3) - 3 * third
      cutA == IF remaining = 1 \/ remaining = 2 THEN third + 1 ELSE third
      cutB == IF remaining = 2 THEN third + 1 ELSE third
  IN  <<SubSeq(sorted, 1, cutA),
        SubSeq(sorted, cutA + 1, cutA + cutB),
        SubSeq(sorted, cutA + cutB + 1, Len(sorted))>>

RECURSIVE bulkInsert(_, _, _)

\* bulkNode: a node taken from the pool gets one entry per part.  Only
\* numEntries and the child and box of the first len(parts) entries are
\* written.  (The parent pointer of the child is not modelled: nothing that
\* is modelled reads it.)
bulkNode(levels, parts, pooled) ==
  LET root == pooled
  IN  [root EXCEPT
         !.numEntries = Len(parts),
         !.entries = [i \in DOMAIN root.entries |->
            IF i <= Len(parts)
              THEN LET child == bulkInsert(parts[i], levels - 1, pooled)
                   IN  [root.entries[i] EXCEPT
                          !.child = child, !.box = calculateBound(child)]
              ELSE root.entries[i]]]

\* bulkInsert: the subtree of the given height over the items.  pooled is
\* the node nodePool.Get() returns.
bulkInsert(items, levels, pooled) ==
  IF levels = 1
    THEN LET root == pooled
         IN  [root EXCEPT
                !.isLeaf = TRUE,
                !.numEntries = Len(items),
                !.entries = [i \in DOMAIN root.entries |->
                   IF i <= Len(items)
                     THEN [box |-> items[i].Box, recordID |-> items[i].RecordID,
                           child |-> NilNode]
                     ELSE root.entries[i]]]
  ELSE IF Len(items) < 6
    THEN bulkNode(levels, splitBulkItems2Ways(items), pooled)
  ELSE IF Len(items) < 8
    THEN bulkNode(levels, splitBulkItems3Ways(items), pooled)
  ELSE LET halves == splitBulkItems2Ways(items)
       IN  bulkNode(levels,
                    splitBulkItems2Ways(halves[1]) \o splitBulkItems2Ways(halves[2]),
                    pooled)

\* BulkLoad: the tree over the items; the empty tree has a nil root.
BulkLoad(items, pooled) ==
  IF Len(items) = 0
    THEN [root |-> NilNode, hasRoot |-> FALSE]
    ELSE [root |-> bulkInsert(items, calculateLevels(Len(items)), pooled),
          hasRoot |-> TRUE]

RECURSIVE searchEntries(_, _, _)
\* The record IDs a search of node n visits in entries i.. of the node, in
\* the order of the visits, when no callback stops the search.
searchEntries(n, box, i) ==
  IF i > n.numEntries THEN <<>>
  ELSE LET e == n.entries[i]
           here == IF ~overlap(e.box, box) THEN <<>>
                   ELSE IF n.isLeaf THEN <<e.recordID>>
                   ELSE searchEntries(e.child, box, 1)
       IN  here \o searchEntries(n, box, i + 1)

\* RTree.RangeSearch: the record IDs handed to the callback, in order.
RangeSearch(t, box) ==
  IF ~t.hasRoot THEN <<>> ELSE searchEntries(t.root, box, 1)

(***************************************************************************)
(* Numeric primitives: XY values, lines and their intersection.            *)
(***************************************************************************)
\* The float64 value NaN, as an ordinate no grid point has.
NaN == -1

RECURSIVE Gcd(_, _)
Gcd(a, b) == IF b = 0 THEN Abs(a) ELSE Gcd(b, a % b)

\* The XY with ordinates xn/d and yn/d (d # 0), in lowest terms.
Rat(xn, yn, d) ==
  LET g == Gcd(Gcd(Abs(xn), Abs(yn)), Abs(d))
      sgn == IF d < 0 THEN 0 - 1 ELSE 1
  IN  [X |-> (sgn * xn) \div g, Y |-> (sgn * yn) \div g, D |-> Abs(d) \div g]

\* The XY of a grid point (or of a point with a NaN ordinate).
NewXY(x, y) == [X |-> x, Y |-> y, D |-> 1]

hasNaN(p) == p.X = NaN \/ p.Y = NaN

\* Go's == on two XY values: NaN equals nothing, not even itself.
xyEq(p, q) == ~hasNaN(p) /\ ~hasNaN(q) /\ p = q

cross(ux, uy, vx, vy) == ux * vy - uy * vx

\* num/den lies in [0, 1] (den # 0).
inUnit(num, den) ==
  IF den > 0 THEN 0 <= num /\ num <= den ELSE den <= num /\ num <= 0

NoIntersection ==
  [empty |-> TRUE, ptA |-> NewXY(0, 0), ptB |-> NewXY(0, 0)]

\* line.intersectLine: the intersection of two lines between grid points:
\* empty, one point (ptA = ptB) or the part of the line they share.
intersectLine(ln, other) ==
  LET rx == ln.b.X - ln.a.X
      ry == ln.b.Y - ln.a.Y
      sx == other.b.X - other.a.X
      sy == other.b.Y - other.a.Y
      cax == other.a.X - ln.a.X
      cay == other.a.Y - ln.a.Y
      dax == other.b.X - ln.a.X
      day == other.b.Y - ln.a.Y
      denom == cross(rx, ry, sx, sy)
      tnum == cross(cax, cay, sx, sy)
      unum == cross(cax, cay, rx, ry)
  IN  IF denom # 0
        THEN IF inUnit(tnum, denom) /\ inUnit(unum, denom)
               THEN LET pt == Rat(ln.a.X * denom + tnum * rx,
                                  ln.a.Y * denom + tnum * ry, denom)
                    IN  [empty |-> FALSE, ptA |-> pt, ptB |-> pt]
               ELSE NoIntersection
      ELSE IF unum # 0
        THEN NoIntersection
      ELSE LET rr == rx * rx + ry * ry
               nc == cax * rx + cay * ry
               nd == dax * rx + day * ry
               lo == Max2(0, Min2(nc, nd))
               hi == Min2(rr, Max2(nc, nd))
           IN  IF lo > hi THEN NoIntersection
               ELSE [empty |-> FALSE,
                     ptA |-> Rat(ln.a.X * rr + lo * rx, ln.a.Y * rr + lo * ry, rr),
                     ptB |-> Rat(ln.a.X * rr + hi * rx, ln.a.Y * rr + hi * ry, rr)]

\* line.box: the bounding box of a line.
box(ln) ==
  NewBox(Min2(ln.a.X, ln.b.X), Min2(ln.a.Y, ln.b.Y),
         Max2(ln.a.X, ln.b.X), Max2(ln.a.Y, ln.b.Y))

(***************************************************************************)
(* Sequences of points and their lines.  A line index i is the Go index of *)
(* the line's first point, 0 .. Length - 1.                                *)
(***************************************************************************)
GetXY(seq, i) == seq[i + 1]

\* getLine: the line from point i to point i + 1; ok is false when there is
\* no point i + 1 or when the two points have the same XY.
getLine(seq, i) ==
  IF i >= Len(seq) - 1
    THEN [ok |-> FALSE, a |-> NewXY(0, 0), b |-> NewXY(0, 0)]
    ELSE [ok |-> GetXY(seq, i) # GetXY(seq, i + 1),
          a |-> GetXY(seq, i), b |-> GetXY(seq, i + 1)]

\* The indexes of the lines of a sequence.
lineIndexes(seq) == { i \in 0..(Len(seq) - 1) : getLine(seq, i).ok }

\* firstAndLastLines: the indexes of the first and of the last line.
firstAndLastLines(seq) ==
  LET L == lineIndexes(seq)
  IN  IF L = {} THEN [ok |-> FALSE, first |-> 0, last |-> 0]
      ELSE [ok |-> TRUE,
            first |-> CHOOSE i \in L : \A k \in L : i <= k,
            last |-> CHOOSE i \in L : \A k \in L : i >= k]

\* previousLine: the index of the last line before line i, -1 when none.
previousLine(seq, i) ==
  LET L == { k \in lineIndexes(seq) : k < i }
  IN  IF L = {} THEN 0 - 1 ELSE CHOOSE k \in L : \A m \in L : k >= m

\* nextLine: the index of the first line after line i, -1 when none.
nextLine(seq, i) ==
  LET L == { k \in lineIndexes(seq) : k > i }
  IN  IF L = {} THEN 0 - 1 ELSE CHOOSE k \in L : \A m \in L : k <= m

(***************************************************************************)
(* LineString.                                                             *)
(***************************************************************************)
\* The options a constructor is called with.
newOptionSet(skip, omit) == [skipValidations |-> skip, omitInvalid |-> omit]

\* hasAtLeast2DistinctPointsInSeq counting points, whatever their values.
hasAtLeast2PointsInSeq(seq) == Len(seq) >= 2

hasAtLeast2DistinctPointsInSeq(seq) ==
  /\ Len(seq) # 0
  /\ \E i \in 1..(Len(seq) - 1) : ~xyEq(GetXY(seq, i), GetXY(seq, 0))

\* Sequence.validate: no ordinate is NaN.
validate(seq) == \A i \in 1..Len(seq) : ~hasNaN(seq[i])

\* lineString{}: the empty LineString.
EmptyLineString == [seq |-> <<>>]

\* NewLineString where omitInvalid is looked at for the first check only.
NewLineStringOmitOnce(seq, ctorOpts) ==
  IF ctorOpts.skipValidations \/ Len(seq) = 0
    THEN [ls |-> [seq |-> seq], err |-> "nil"]
  ELSE IF ~hasAtLeast2DistinctPointsInSeq(seq)
    THEN IF ctorOpts.omitInvalid
           THEN [ls |-> EmptyLineString, err |-> "nil"]
           ELSE [ls |-> EmptyLineString, err |-> "validationError"]
  ELSE IF ~validate(seq)
    THEN [ls |-> EmptyLineString, err |-> "validationError"]
  ELSE [ls |-> [seq |-> seq], err |-> "nil"]

\* NewLineString: the LineString over the sequence, or an error.
NewLineString(seq, ctorOpts) ==
  IF ctorOpts.skipValidations \/ Len(seq) = 0
    THEN [ls |-> [seq |-> seq], err |-> "nil"]
  ELSE IF ~hasAtLeast2DistinctPointsInSeq(seq)
    THEN IF ctorOpts.omitInvalid
           THEN [ls |-> EmptyLineString, err |-> "nil"]
           ELSE [ls |-> EmptyLineString, err |-> "validationError"]
  ELSE IF ~validate(seq)
    THEN IF ctorOpts.omitInvalid
           THEN [ls |-> EmptyLineString, err |-> "nil"]
           ELSE [ls |-> EmptyLineString, err |-> "validationError"]
  ELSE [ls |-> [seq |-> seq], err |-> "nil"]

IsEmpty(s) == Len(s.seq) = 0

IsClosed(s) ==
  ~IsEmpty(s) /\ xyEq(GetXY(s.seq, 0), GetXY(s.seq, Len(s.seq) - 1))

RECURSIVE lineItems(_, _)
\* The bulk items of IsSimple: one per line, its record ID the line's index.
lineItems(seq, i) ==
  IF i >= Len(seq) THEN <<>>
  ELSE LET ln == getLine(seq, i)
       IN  (IF ln.ok THEN <<[Box |-> box(ln), RecordID |-> i]>> ELSE <<>>)
             \o lineItems(seq, i + 1)

\* isSimpleVisit without the test that the LineString is closed.
isSimpleVisitAnyEnds(s, i, j, first, last) ==
  LET ln == getLine(s.seq, i)
      other == getLine(s.seq, j)
      inter == intersectLine(ln, other)
  IN  IF i >= j THEN "nil"
      ELSE IF ~other.ok THEN "panic"
      ELSE IF inter.empty THEN "nil"
      ELSE IF inter.ptA # inter.ptB THEN "stop"
      ELSE IF j = previousLine(s.seq, i) \/ j = nextLine(s.seq, i) THEN "nil"
      ELSE IF i = first /\ j = last THEN "nil"
      ELSE "stop"

\* The callback IsSimple hands to RangeSearch for line i, called with record
\* j: "nil" lets the search go on, "stop" ends it with simple = false.
isSimpleVisit(s, i, j, first, last) ==
  LET ln == getLine(s.seq, i)
      other == getLine(s.seq, j)
      inter == intersectLine(ln, other)
  IN  IF i >= j THEN "nil"
      ELSE IF ~other.ok THEN "panic"
      ELSE IF inter.empty THEN "nil"
      ELSE IF inter.ptA # inter.ptB THEN "stop"
      ELSE IF j = previousLine(s.seq, i) \/ j = nextLine(s.seq, i) THEN "nil"
      ELSE IF IsClosed(s) /\ i = first /\ j = last THEN "nil"
      ELSE "stop"

RECURSIVE searchOutcomeNeighboursUnseen(_, _, _, _, _)
RECURSIVE searchOutcome(_, _, _, _, _)
\* searchOutcome with the neighbours of line i let through before their
\* intersection with line i is looked at.
searchOutcomeNeighboursUnseen(s, i, found, first, last) ==
  IF found = <<>> THEN "nil"
  ELSE IF Head(found) = previousLine(s.seq, i) \/ Head(found) = nextLine(s.seq, i)
    THEN searchOutcomeNeighboursUnseen(s, i, Tail(found), first, last)
  ELSE LET r == isSimpleVisit(s, i, Head(found), first, last)
       IN  IF r # "nil" THEN r
           ELSE searchOutcomeNeighboursUnseen(s, i, Tail(found), first, last)

\* The outcome of one RangeSearch of IsSimple over the records it visits:
\* the first callback result that is not "nil", or "nil".
searchOutcome(s, i, found, first, last) ==
  IF found = <<>> THEN "nil"
  ELSE LET r == isSimpleVisit(s, i, Head(found), first, last)
       IN  IF r # "nil" THEN r
           ELSE searchOutcome(s, i, Tail(found), first, last)

RECURSIVE isSimpleFrom(_, _, _, _, _)
isSimpleFrom(s, t, i, first, last) ==
  IF i >= Len(s.seq) THEN "true"
  ELSE LET ln == getLine(s.seq, i)
       IN  IF ~ln.ok THEN isSimpleFrom(s, t, i + 1, first, last)
           ELSE LET r == searchOutcome(s, i, RangeSearch(t, box(ln)), first, last)
                IN  IF r = "panic" THEN "panic"
                    ELSE IF r = "stop" THEN "false"
                    ELSE isSimpleFrom(s, t, i + 1, first, last)

\* lineString.IsSimple: "true", "false", or "panic" when a record of the tree
\* is no line of the sequence.
IsSimple(s, pooled) ==
  LET fl == firstAndLastLines(s.seq)
  IN  IF ~fl.ok THEN "true"
      ELSE isSimpleFrom(s, BulkLoad(lineItems(s.seq, 0), pooled), 0,
                        fl.first, fl.last)

(***************************************************************************)
(* Rings and Polygons.  A ring is the closed sequence of the points of a   *)
(* valid LinearRing; a Polygon is its outer ring and its holes.            *)
(***************************************************************************)
\* p lies before q in the order by X, then by Y (both may be fractions).
xyLess(p, q) ==
  IF p.X * q.D # q.X * p.D
    THEN p.X * q.D < q.X * p.D
    ELSE p.Y * q.D < q.Y * p.D

\* XY.Midpoint
Midpoint(p, q) ==
  Rat(p.X * q.D + q.X * p.D, p.Y * q.D + q.Y * p.D, 2 * p.D * q.D)

\* pt lies on the line (its end points included).
onLine(pt, ln) ==
  LET ax == ln.a.X * pt.D
      ay == ln.a.Y * pt.D
      bx == ln.b.X * pt.D
      by == ln.b.Y * pt.D
  IN  /\ cross(bx - ax, by - ay, pt.X - ax, pt.Y - ay) = 0
      /\ Min2(ax, bx) <= pt.X /\ pt.X <= Max2(ax, bx)
      /\ Min2(ay, by) <= pt.Y /\ pt.Y <= Max2(ay, by)

\* The ray from pt towards +X crosses the line; an end point of the line
\* counts only when it is the upper one (the half-open edge rule).
crossesRay(pt, ln) ==
  LET ax == ln.a.X * pt.D
      ay == ln.a.Y * pt.D
      bx == ln.b.X * pt.D
      by == ln.b.Y * pt.D
      dy == by - ay
      lhs == (pt.X - ax) * dy
      rhs == (pt.Y - ay) * (bx - ax)
  IN  /\ (ay > pt.Y) # (by > pt.Y)
      /\ IF dy > 0 THEN lhs < rhs ELSE lhs > rhs

\* pointRingSide: "interior", "boundary" or "exterior".
pointRingSide(pt, ring) ==
  IF \E i \in lineIndexes(ring) : onLine(pt, getLine(ring, i))
    THEN "boundary"
  ELSE IF Cardinality({ i \in lineIndexes(ring) : crossesRay(pt, getLine(ring, i)) }) % 2 = 1
    THEN "interior"
  ELSE "exterior"

\* LinearRing.Intersection: the end points of the parts two rings share,
\* line by line.  The envelope of the intersection exists when the set is
\* not empty, and its Min equals its Max when the set is one point.
ringIntersection(r1, r2) ==
  UNION { LET inter == intersectLine(getLine(r1, i), getLine(r2, j))
          IN  IF inter.empty THEN {} ELSE {inter.ptA, inter.ptB}
          : i \in lineIndexes(r1), j \in lineIndexes(r2) }

RECURSIVE reachable(_, _)
\* The vertices joined to a vertex of S by a path of edges.
reachable(S, edges) ==
  LET next == S \cup UNION { e \in edges : e \cap S # {} }
  IN  IF next = S THEN S ELSE reachable(next, edges)

\* graph.hasCycle: some edge joins two vertices that the other edges join
\* already.  An edge is the set of its two vertices.
hasCycle(edges) ==
  \E e \in edges :
    \E u \in e : \E v \in e \ {u} : v \in reachable({u}, edges \ {e})

\* The pairs (i, j), i < j < n, in the order of the two loops.
ringPairs(n) ==
  LET RECURSIVE from(_, _)
      from(i, j) ==
        IF i >= n THEN <<>>
        ELSE IF j >= n THEN from(i + 1, i + 2)
        ELSE <<(<<i, j>>)>> \o from(i, j + 1)
  IN  from(0, 1)

RECURSIVE ringGraph(_, _, _, _)
\* The pairwise loop with a new vertex for the point of every pair, whether
\* the point has one already or not.
ringGraphVertexPerPair(allRings, pairs, seen, edges) ==
  IF pairs = <<>> THEN [multiple |-> FALSE, edges |-> edges]
  ELSE LET i == Head(pairs)[1]
           j == Head(pairs)[2]
           inter == ringIntersection(allRings[i + 1], allRings[j + 1])
       IN  IF inter = {}
             THEN ringGraph(allRings, Tail(pairs), seen, edges)
           ELSE IF Cardinality(inter) # 1
             THEN [multiple |-> TRUE, edges |-> edges]
           ELSE LET pt == CHOOSE p \in inter : TRUE
                    seen2 == Append(seen, pt)
                    interVert == Len(allRings) - 1 + Len(seen2)
                IN  ringGraph(allRings, Tail(pairs), seen2,
                              edges \cup {{interVert, i}, {interVert, j}})

\* The pairwise loop with an edge only to the first ring of each pair.
ringGraphFirstRingOnly(allRings, pairs, seen, edges) ==
  IF pairs = <<>> THEN [multiple |-> FALSE, edges |-> edges]
  ELSE LET i == Head(pairs)[1]
           j == Head(pairs)[2]
           inter == ringIntersection(allRings[i + 1], allRings[j + 1])
       IN  IF inter = {}
             THEN ringGraph(allRings, Tail(pairs), seen, edges)
           ELSE IF Cardinality(inter) # 1
             THEN [multiple |-> TRUE, edges |-> edges]
           ELSE LET pt == CHOOSE p \in inter : TRUE
                    seen2 == IF \E k \in 1..Len(seen) : seen[k] = pt
                               THEN seen ELSE Append(seen, pt)
                    interVert == Len(allRings) - 1
                                   + (CHOOSE k \in 1..Len(seen2) : seen2[k] = pt)
                IN  ringGraph(allRings, Tail(pairs), seen2,
                              edges \cup {{interVert, i}})

\* The pairwise loop of NewPolygon over the pairs still to visit.  seen is
\* interVerts: the intersection points in the order they got their vertex.
ringGraph(allRings, pairs, seen, edges) ==
  IF pairs = <<>> THEN [multiple |-> FALSE, edges |-> edges]
  ELSE LET i == Head(pairs)[1]
           j == Head(pairs)[2]
           inter == ringIntersection(allRings[i + 1], allRings[j + 1])
       IN  IF inter = {}
             THEN ringGraph(allRings, Tail(pairs), seen, edges)
           ELSE IF Cardinality(inter) # 1
             THEN [multiple |-> TRUE, edges |-> edges]
           ELSE LET pt == CHOOSE p \in inter : TRUE
                    seen2 == IF \E k \in 1..Len(seen) : seen[k] = pt
                               THEN seen ELSE Append(seen, pt)
                    interVert == Len(allRings) - 1
                                   + (CHOOSE k \in 1..Len(seen2) : seen2[k] = pt)
                IN  ringGraph(allRings, Tail(pairs), seen2,
                              edges \cup {{interVert, i}, {interVert, j}})

\* Polygon{}
ZeroPolygon == [outer |-> <<>>, holes |-> <<>>]

\* The only errors NewPolygon returns.
ErrMultiplePoints == "polygon rings must not intersect at multiple points"
ErrHoleOutside == "hole must be inside outer ring"
ErrNotConnected == "polygon interiors must be connected"

\* Some hole has a line that starts outside the outer ring.
holeStartsOutside(outer, holes) ==
  \E h \in 1..Len(holes) : \E k \in lineIndexes(holes[h]) :
    pointRingSide(getLine(holes[h], k).a, outer) = "exterior"

\* NewPolygon with no test that the rings meet in one point at most.
NewPolygonRingsUnchecked(outer, holes) ==
  LET allRings == Append(holes, outer)
      g == ringGraph(allRings, ringPairs(Len(allRings)), <<>>, {})
  IN  IF holeStartsOutside(outer, holes)
        THEN [poly |-> ZeroPolygon, err |-> ErrHoleOutside]
      ELSE IF hasCycle(g.edges)
        THEN [poly |-> ZeroPolygon, err |-> ErrNotConnected]
      ELSE [poly |-> [outer |-> outer, holes |-> holes], err |-> "nil"]

\* NewPolygon with no test of where the holes lie.
NewPolygonHolesUnchecked(outer, holes) ==
  LET allRings == Append(holes, outer)
      g == ringGraph(allRings, ringPairs(Len(allRings)), <<>>, {})
  IN  IF g.multiple
        THEN [poly |-> ZeroPolygon, err |-> ErrMultiplePoints]
      ELSE IF hasCycle(g.edges)
        THEN [poly |-> ZeroPolygon, err |-> ErrNotConnected]
      ELSE [poly |-> [outer |-> outer, holes |-> holes], err |-> "nil"]

\* NewPolygon: the Polygon of the rings, or the first error found.
NewPolygon(outer, holes) ==
  LET allRings == Append(holes, outer)
      g == ringGraph(allRings, ringPairs(Len(allRings)), <<>>, {})
  IN  IF g.multiple
        THEN [poly |-> ZeroPolygon, err |-> ErrMultiplePoints]
      ELSE IF holeStartsOutside(outer, holes)
        THEN [poly |-> ZeroPolygon, err |-> ErrHoleOutside]
      ELSE IF hasCycle(g.edges)
        THEN [poly |-> ZeroPolygon, err |-> ErrNotConnected]
      ELSE [poly |-> [outer |-> outer, holes |-> holes], err |-> "nil"]

\* Polygon.rings: the outer ring, then the holes.
rings(p) == <<p.outer>> \o p.holes

\* Polygon.Envelope: the envelope of the outer ring; ok is false for a
\* Polygon without one.
Envelope(p) ==
  IF p.outer = <<>>
    THEN [ok |-> FALSE, minX |-> 0, maxX |-> 0]
    ELSE [ok |-> TRUE,
          minX |-> CHOOSE x \in { p.outer[k].X : k \in 1..Len(p.outer) } :
                     \A k \in 1..Len(p.outer) : x <= p.outer[k].X,
          maxX |-> CHOOSE x \in { p.outer[k].X : k \in 1..Len(p.outer) } :
                     \A k \in 1..Len(p.outer) : x >= p.outer[k].X]

(***************************************************************************)
(* MultiPolygon.                                                           *)
(***************************************************************************)
isPointInteriorToPolygon(pt, poly) ==
  /\ pointRingSide(pt, poly.outer) = "interior"
  /\ \A h \in 1..Len(poly.holes) : pointRingSide(pt, poly.holes[h]) = "exterior"

\* The lines of the rings of a Polygon.
polygonLines(p) ==
  UNION { { getLine(rings(p)[r], i) : i \in lineIndexes(rings(p)[r]) }
          : r \in 1..Len(rings(p)) }

\* linePts: the end points of line1 and the points strictly inside it where
\* a line of p2 meets it in a single point.
linePts(line1, p2) ==
  {line1.a, line1.b} \cup
  UNION { LET inter == intersectLine(line1, line2)
          IN  IF inter.empty \/ inter.ptA # inter.ptB THEN {}
              ELSE IF inter.ptA # line1.a /\ inter.ptA # line1.b THEN {inter.ptA}
              ELSE {}
          : line2 \in polygonLines(p2) }

\* What a line adds to allPts: its points, and when there are more than two
\* of them also the midpoint of each two that are neighbours in the order
\* by X, then Y.
sampledPts(pts) ==
  IF Cardinality(pts) <= 2 THEN pts
  ELSE pts \cup
       { Midpoint(pq[1], pq[2]) :
           pq \in { pr \in pts \X pts :
                      /\ xyLess(pr[1], pr[2])
                      /\ ~\E r \in pts : xyLess(pr[1], r) /\ xyLess(r, pr[2]) } }

\* One of the two passes of polyInteriorsIntersect: a point sampled on the
\* boundary of p1 is interior to p2.
boundaryEntersInterior(p1, p2) ==
  \E line1 \in polygonLines(p1) :
    \E pt \in sampledPts(linePts(line1, p2)) : isPointInteriorToPolygon(pt, p2)

polyInteriorsIntersect(p1, p2) ==
  boundaryEntersInterior(p2, p1) \/ boundaryEntersInterior(p1, p2)

\* mustIntersection(bound1, bound2).Dimension() > 0: some line of one
\* boundary shares more than a point with a line of the other.
boundariesShareALine(p1, p2) ==
  \E line1 \in polygonLines(p1), line2 \in polygonLines(p2) :
    LET inter == intersectLine(line1, line2)
    IN  ~inter.empty /\ inter.ptA # inter.ptB

\* The options ask for the expensive validations.
doExpensiveValidations(ctorOpts) == ~ctorOpts.skipValidations

RECURSIVE insertIndex(_, _, _)
\* One pass of the insertion sort of the indexes by minX.
insertIndex(intervals, sorted, i) ==
  IF sorted = <<>> THEN <<i>>
  ELSE IF intervals[i].minX < intervals[sorted[Len(sorted)]].minX
    THEN Append(insertIndex(intervals, SubSeq(sorted, 1, Len(sorted) - 1), i),
                sorted[Len(sorted)])
    ELSE Append(sorted, i)

RECURSIVE sortIndexes(_, _)
\* sort.Slice of the indexes 1..k by minX (an insertion sort for a slice of
\* at most 12 elements).
sortIndexes(intervals, k) ==
  IF k = 0 THEN <<>> ELSE insertIndex(intervals, sortIndexes(intervals, k - 1), k)

RECURSIVE heapPush(_, _, _)
\* intHeap.push: the heap is kept here as the list of its indexes by maxX,
\* the least first.
heapPush(intervals, active, i) ==
  IF active = <<>> THEN <<i>>
  ELSE IF intervals[i].maxX < intervals[Head(active)].maxX
    THEN <<i>> \o active
    ELSE <<Head(active)>> \o heapPush(intervals, Tail(active), i)

RECURSIVE heapPopBelow(_, _, _)
\* active.pop() for as long as the least maxX is not more than currentX.
heapPopUpTo(intervals, active, currentX) ==
  IF active # <<>> /\ intervals[Head(active)].maxX <= currentX
    THEN heapPopBelow(intervals, Tail(active), currentX)
    ELSE active

\* active.pop() for as long as the least maxX is less than currentX.
heapPopBelow(intervals, active, currentX) ==
  IF active # <<>> /\ intervals[Head(active)].maxX < currentX
    THEN heapPopBelow(intervals, Tail(active), currentX)
    ELSE active

ErrEmptyPolygon == "polygon in multiploygon not allowed to be empty"
ErrBoundaries ==
  "the boundaries of the polygon elements of multipolygons must only intersect at points"
ErrInteriors == "polygon interiors must not intersect"

RECURSIVE checkActive(_, _, _)
\* The loop over active.data for polygon i: the first error, or "nil".
checkActive(polys, i, active) ==
  IF active = <<>> THEN "nil"
  ELSE IF boundariesShareALine(polys[i], polys[Head(active)]) THEN ErrBoundaries
  ELSE IF polyInteriorsIntersect(polys[i], polys[Head(active)]) THEN ErrInteriors
  ELSE checkActive(polys, i, Tail(active))

RECURSIVE sweep(_, _, _, _, _)
\* The sweep of NewMultiPolygon over the indexes still to visit: the first
\* error or "nil", and with it the pairs of Polygons the loop over
\* active.data has gone through (tested, which the code does not keep).
sweep(polys, intervals, indexes, active, tested) ==
  IF indexes = <<>> THEN [err |-> "nil", tested |-> tested]
  ELSE LET i == Head(indexes)
           kept == heapPopBelow(intervals, active, intervals[i].minX)
           e == checkActive(polys, i, kept)
           pairs == tested \cup { {i, kept[k]} : k \in 1..Len(kept) }
       IN  IF e # "nil" THEN [err |-> e, tested |-> pairs]
           ELSE sweep(polys, intervals, Tail(indexes), heapPush(intervals, kept, i), pairs)

\* MultiPolygon{}
ZeroMultiPolygon == [polys |-> <<>>]

\* NewMultiPolygon that validates whatever the options say.
NewMultiPolygonAlwaysValidating(polys, ctorOpts) ==
  IF \E i \in 1..Len(polys) : ~Envelope(polys[i]).ok
    THEN [mp |-> ZeroMultiPolygon, err |-> ErrEmptyPolygon]
  ELSE LET intervals == [i \in 1..Len(polys) |-> Envelope(polys[i])]
           e == sweep(polys, intervals, sortIndexes(intervals, Len(polys)), <<>>, {}).err
       IN  IF e # "nil" THEN [mp |-> ZeroMultiPolygon, err |-> e]
           ELSE [mp |-> [polys |-> polys], err |-> "nil"]

\* NewMultiPolygon: the MultiPolygon of the Polygons, or the first error.
NewMultiPolygon(polys, ctorOpts) ==
  IF ~doExpensiveValidations(ctorOpts)
    THEN [mp |-> [polys |-> polys], err |-> "nil"]
  ELSE IF \E i \in 1..Len(polys) : ~Envelope(polys[i]).ok
    THEN [mp |-> ZeroMultiPolygon, err |-> ErrEmptyPolygon]
  ELSE LET intervals == [i \in 1..Len(polys) |-> Envelope(polys[i])]
           e == sweep(polys, intervals, sortIndexes(intervals, Len(polys)), <<>>, {}).err
       IN  IF e # "nil" THEN [mp |-> ZeroMultiPolygon, err |-> e]
           ELSE [mp |-> [polys |-> polys], err |-> "nil"]

RECURSIVE pairwise(_, _, _)
\* The two loops of the older NewMultiPolygon from the pair (i, j) on: the
\* first error, or "nil".
pairwise(polys, i, j) ==
  IF i > Len(polys) THEN "nil"
  ELSE IF j > Len(polys) THEN pairwise(polys, i + 1, i + 2)
  ELSE IF boundariesShareALine(polys[i], polys[j]) THEN ErrBoundaries
  ELSE IF polyInteriorsIntersect(polys[i], polys[j]) THEN ErrInteriors
  ELSE pairwise(polys, i, j + 1)

\* The older NewMultiPolygon, which tests every pair of Polygons.
NewMultiPolygonPairwise(polys) ==
  LET e == pairwise(polys, 1, 2)
  IN  IF e # "nil" THEN [mp |-> ZeroMultiPolygon, err |-> e]
      ELSE [mp |-> [polys |-> polys], err |-> "nil"]

(***************************************************************************)
(* Point.                                                                  *)
(***************************************************************************)
\* NewPointC: the Point of the coordinates.  The options are not looked at
\* and there is no error to return.
NewPointC(c, ctorOpts) == [pt |-> [coords |-> c], err |-> "nil"]

(***************************************************************************)
(* Geometries and Intersects.  A Geometry is a record with the tag of its  *)
(* variant.                                                                *)
(***************************************************************************)
NewEmptyPoint == [tag |-> "Point", empty |-> TRUE, xy |-> NewXY(0, 0)]

newUncheckedPoint(xy) == [tag |-> "Point", empty |-> FALSE, xy |-> xy]

\* A LineString as a Geometry.
LineStringOf(seq) == [tag |-> "LineString", seq |-> seq]

\* A Polygon as a Geometry.
PolygonOf(outer, holes) == [tag |-> "Polygon", outer |-> outer, holes |-> holes]

NewMultiPoint(pts) == [tag |-> "MultiPoint", pts |-> pts]

NewMultiLineString(lss) == [tag |-> "MultiLineString", lss |-> lss]

\* A MultiPolygon as a Geometry.
MultiPolygonOf(polygons) == [tag |-> "MultiPolygon", polys |-> polygons]

NewGeometryCollection(geoms) == [tag |-> "GeometryCollection", geoms |-> geoms]

\* rank: the place of a variant in the order of the dispatch.
rank(g) ==
  CASE g.tag = "Point" -> 1
    [] g.tag = "LineString" -> 2
    [] g.tag = "Polygon" -> 3
    [] g.tag = "MultiPoint" -> 4
    [] g.tag = "MultiLineString" -> 5
    [] g.tag = "MultiPolygon" -> 6
    [] g.tag = "GeometryCollection" -> 7

\* lineString.StartPoint
StartPoint(s) ==
  IF IsEmpty(s) THEN NewEmptyPoint ELSE newUncheckedPoint(GetXY(s.seq, 0))

RECURSIVE linesFrom(_, _)
linesFrom(seq, i) ==
  IF i >= Len(seq) THEN <<>>
  ELSE LET ln == getLine(seq, i)
       IN  (IF ln.ok THEN <<ln>> ELSE <<>>) \o linesFrom(seq, i + 1)

\* lineString.asLines
asLines(s) == linesFrom(s.seq, 0)

RECURSIVE mlsLinesFrom(_, _)
mlsLinesFrom(mls, k) ==
  IF k > Len(mls.lss) THEN <<>>
  ELSE asLines(mls.lss[k]) \o mlsLinesFrom(mls, k + 1)

\* MultiLineString.asLines: the lines of its LineStrings, in order.
mlsAsLines(mls) == mlsLinesFrom(mls, 1)

\* lineString.AsMultiLineString
AsMultiLineString(s) == NewMultiLineString(<<s>>)

\* Polygon.AsMultiPolygon
AsMultiPolygon(p) == MultiPolygonOf(<<p>>)

\* Polygon.IsEmpty
PolygonIsEmpty(p) == FALSE

\* Polygon.Boundary: the rings, as LineStrings.
Boundary(p) ==
  NewMultiLineString([r \in 1..Len(rings(p)) |-> LineStringOf(rings(p)[r])])

RECURSIVE boundariesFrom(_, _)
boundariesFrom(m, k) ==
  IF k > Len(m.polys) THEN <<>>
  ELSE Boundary(m.polys[k]).lss \o boundariesFrom(m, k + 1)

\* MultiPolygon.Boundary: the rings of its Polygons, as LineStrings.
MultiPolygonBoundary(m) == NewMultiLineString(boundariesFrom(m, 1))

\* line.intersectsXY
intersectsXY(ln, xy) == onLine(xy, ln)

\* hasIntersectionBetweenLines without the extension: a tree of the lines of
\* lines1 is searched with the box of each line of lines2, and a record the
\* search visits whose line meets that line ends the search.
hasIntersectionBetweenLines(lines1, lines2) ==
  LET bulk == [i \in 1..Len(lines1) |->
                 [Box |-> box(lines1[i]), RecordID |-> i - 1]]
      t == BulkLoad(bulk, nodePool)
  IN  \E a \in 1..Len(lines2) :
        LET found == RangeSearch(t, box(lines2[a]))
        IN  \E v \in 1..Len(found) :
              ~intersectLine(lines2[a], lines1[found[v] + 1]).empty

hasIntersectionLineStringWithLineString(ls1, ls2) ==
  hasIntersectionBetweenLines(asLines(ls1), asLines(ls2))

hasIntersectionMultiLineStringWithMultiLineString(mls1, mls2) ==
  hasIntersectionBetweenLines(mlsAsLines(mls1), mlsAsLines(mls2))

hasIntersectionPointWithPoint(pt1, pt2) ==
  ~pt1.empty /\ ~pt2.empty /\ xyEq(pt1.xy, pt2.xy)

hasIntersectionPointWithLineString(point, s) ==
  /\ ~point.empty
  /\ \E i \in 0..(Len(s.seq) - 1) :
       getLine(s.seq, i).ok /\ intersectsXY(getLine(s.seq, i), point.xy)

\* hasIntersectionPointWithPolygon without the test that the Point has an XY.
hasIntersectionPointWithPolygonAnyPoint(point, p) ==
  /\ ~PolygonIsEmpty(p)
  /\ pointRingSide(point.xy, p.outer) # "exterior"
  /\ \A h \in 1..Len(p.holes) : pointRingSide(point.xy, p.holes[h]) # "interior"

hasIntersectionPointWithPolygon(point, p) ==
  /\ ~point.empty
  /\ ~PolygonIsEmpty(p)
  /\ pointRingSide(point.xy, p.outer) # "exterior"
  /\ \A h \in 1..Len(p.holes) : pointRingSide(point.xy, p.holes[h]) # "interior"

hasIntersectionPointWithMultiPoint(point, m) ==
  \E i \in 1..Len(m.pts) : hasIntersectionPointWithPoint(point, m.pts[i])

hasIntersectionPointWithMultiLineString(point, mls) ==
  \E i \in 1..Len(mls.lss) : hasIntersectionPointWithLineString(point, mls.lss[i])

hasIntersectionPointWithMultiPolygon(point, m) ==
  \E i \in 1..Len(m.polys) : hasIntersectionPointWithPolygon(point, m.polys[i])

hasIntersectionMultiPointWithMultiLineString(m, mls) ==
  \E i \in 1..Len(m.pts) :
    /\ ~m.pts[i].empty
    /\ \E j \in 1..Len(mls.lss) : \E k \in 0..(Len(mls.lss[j].seq) - 1) :
         /\ getLine(mls.lss[j].seq, k).ok
         /\ intersectsXY(getLine(mls.lss[j].seq, k), m.pts[i].xy)

hasIntersectionMultiPointWithMultiPoint(mp1, mp2) ==
  \E i \in 1..Len(mp1.pts) : hasIntersectionPointWithMultiPoint(mp1.pts[i], mp2)

hasIntersectionMultiPointWithPolygon(m, p) ==
  \E i \in 1..Len(m.pts) : hasIntersectionPointWithPolygon(m.pts[i], p)

hasIntersectionMultiPointWithMultiPolygon(m, polygons) ==
  \E i \in 1..Len(m.pts) : hasIntersectionPointWithMultiPolygon(m.pts[i], polygons)

hasIntersectionMultiLineStringWithMultiPolygon(mls, m) ==
  \/ hasIntersectionMultiLineStringWithMultiLineString(mls, MultiPolygonBoundary(m))
  \/ \E i \in 1..Len(mls.lss) :
       hasIntersectionPointWithMultiPolygon(StartPoint(mls.lss[i]), m)

\* hasIntersectionPolygonWithPolygon that looks for the start of the first
\* Polygon in the second only.
hasIntersectionPolygonWithPolygonOneWay(p1, p2) ==
  \/ hasIntersectionMultiLineStringWithMultiLineString(Boundary(p1), Boundary(p2))
  \/ hasIntersectionPointWithPolygon(StartPoint(LineStringOf(p1.outer)), p2)

hasIntersectionPolygonWithPolygon(p1, p2) ==
  \/ hasIntersectionMultiLineStringWithMultiLineString(Boundary(p1), Boundary(p2))
  \/ hasIntersectionPointWithPolygon(StartPoint(LineStringOf(p1.outer)), p2)
  \/ hasIntersectionPointWithPolygon(StartPoint(LineStringOf(p2.outer)), p1)

hasIntersectionMultiPolygonWithMultiPolygon(mp1, mp2) ==
  \E i \in 1..Len(mp1.polys) : \E j \in 1..Len(mp2.polys) :
    hasIntersectionPolygonWithPolygon(mp1.polys[i], mp2.polys[j])

\* The switch of hasIntersection without the case of a Polygon and a
\* MultiPoint.
handlerForNoPolygonMultiPoint(g1, g2) ==
  CASE g1.tag = "Point" /\ g2.tag = "Point" -> "PointWithPoint"
    [] g1.tag = "Point" /\ g2.tag = "LineString" -> "PointWithLineString"
    [] g1.tag = "Point" /\ g2.tag = "Polygon" -> "PointWithPolygon"
    [] g1.tag = "Point" /\ g2.tag = "MultiPoint" -> "PointWithMultiPoint"
    [] g1.tag = "Point" /\ g2.tag = "MultiLineString" -> "PointWithMultiLineString"
    [] g1.tag = "Point" /\ g2.tag = "MultiPolygon" -> "PointWithMultiPolygon"
    [] g1.tag = "LineString" /\ g2.tag = "LineString" -> "LineStringWithLineString"
    [] g1.tag = "LineString" /\ g2.tag = "Polygon" -> "LineStringWithPolygon"
    [] g1.tag = "LineString" /\ g2.tag = "MultiPoint" -> "LineStringWithMultiPoint"
    [] g1.tag = "LineString" /\ g2.tag = "MultiLineString" -> "LineStringWithMultiLineString"
    [] g1.tag = "LineString" /\ g2.tag = "MultiPolygon" -> "LineStringWithMultiPolygon"
    [] g1.tag = "Polygon" /\ g2.tag = "Polygon" -> "PolygonWithPolygon"
    [] g1.tag = "Polygon" /\ g2.tag = "MultiLineString" -> "PolygonWithMultiLineString"
    [] g1.tag = "Polygon" /\ g2.tag = "MultiPolygon" -> "PolygonWithMultiPolygon"
    [] g1.tag = "MultiPoint" /\ g2.tag = "MultiPoint" -> "MultiPointWithMultiPoint"
    [] g1.tag = "MultiPoint" /\ g2.tag = "MultiLineString" -> "MultiPointWithMultiLineString"
    [] g1.tag = "MultiPoint" /\ g2.tag = "MultiPolygon" -> "MultiPointWithMultiPolygon"
    [] g1.tag = "MultiLineString" /\ g2.tag = "MultiLineString"
         -> "MultiLineStringWithMultiLineString"
    [] g1.tag = "MultiLineString" /\ g2.tag = "MultiPolygon"
         -> "MultiLineStringWithMultiPolygon"
    [] g1.tag = "MultiPolygon" /\ g2.tag = "MultiPolygon" -> "MultiPolygonWithMultiPolygon"
    [] OTHER -> "unhandled"

\* The switch of hasIntersection: the case the pair of variants selects,
\* "unhandled" when the switch has no case for it.
handlerFor(g1, g2) ==
  CASE g1.tag = "Point" /\ g2.tag = "Point" -> "PointWithPoint"
    [] g1.tag = "Point" /\ g2.tag = "LineString" -> "PointWithLineString"
    [] g1.tag = "Point" /\ g2.tag = "Polygon" -> "PointWithPolygon"
    [] g1.tag = "Point" /\ g2.tag = "MultiPoint" -> "PointWithMultiPoint"
    [] g1.tag = "Point" /\ g2.tag = "MultiLineString" -> "PointWithMultiLineString"
    [] g1.tag = "Point" /\ g2.tag = "MultiPolygon" -> "PointWithMultiPolygon"
    [] g1.tag = "LineString" /\ g2.tag = "LineString" -> "LineStringWithLineString"
    [] g1.tag = "LineString" /\ g2.tag = "Polygon" -> "LineStringWithPolygon"
    [] g1.tag = "LineString" /\ g2.tag = "MultiPoint" -> "LineStringWithMultiPoint"
    [] g1.tag = "LineString" /\ g2.tag = "MultiLineString" -> "LineStringWithMultiLineString"
    [] g1.tag = "LineString" /\ g2.tag = "MultiPolygon" -> "LineStringWithMultiPolygon"
    [] g1.tag = "Polygon" /\ g2.tag = "Polygon" -> "PolygonWithPolygon"
    [] g1.tag = "Polygon" /\ g2.tag = "MultiPoint" -> "PolygonWithMultiPoint"
    [] g1.tag = "Polygon" /\ g2.tag = "MultiLineString" -> "PolygonWithMultiLineString"
    [] g1.tag = "Polygon" /\ g2.tag = "MultiPolygon" -> "PolygonWithMultiPolygon"
    [] g1.tag = "MultiPoint" /\ g2.tag = "MultiPoint" -> "MultiPointWithMultiPoint"
    [] g1.tag = "MultiPoint" /\ g2.tag = "MultiLineString" -> "MultiPointWithMultiLineString"
    [] g1.tag = "MultiPoint" /\ g2.tag = "MultiPolygon" -> "MultiPointWithMultiPolygon"
    [] g1.tag = "MultiLineString" /\ g2.tag = "MultiLineString"
         -> "MultiLineStringWithMultiLineString"
    [] g1.tag = "MultiLineString" /\ g2.tag = "MultiPolygon"
         -> "MultiLineStringWithMultiPolygon"
    [] g1.tag = "MultiPolygon" /\ g2.tag = "MultiPolygon" -> "MultiPolygonWithMultiPolygon"
    [] OTHER -> "unhandled"

\* What the selected case of the switch returns.
callHandler(h, g1, g2) ==
  CASE h = "PointWithPoint" -> hasIntersectionPointWithPoint(g1, g2)
    [] h = "PointWithLineString" -> hasIntersectionPointWithLineString(g1, g2)
    [] h = "PointWithPolygon" -> hasIntersectionPointWithPolygon(g1, g2)
    [] h = "PointWithMultiPoint" -> hasIntersectionPointWithMultiPoint(g1, g2)
    [] h = "PointWithMultiLineString" -> hasIntersectionPointWithMultiLineString(g1, g2)
    [] h = "PointWithMultiPolygon" -> hasIntersectionPointWithMultiPolygon(g1, g2)
    [] h = "LineStringWithLineString" -> hasIntersectionLineStringWithLineString(g1, g2)
    [] h = "LineStringWithPolygon" ->
         hasIntersectionMultiLineStringWithMultiPolygon(AsMultiLineString(g1),
                                                        AsMultiPolygon(g2))
    [] h = "LineStringWithMultiPoint" ->
         hasIntersectionMultiPointWithMultiLineString(g2, AsMultiLineString(g1))
    [] h = "LineStringWithMultiLineString" ->
         hasIntersectionMultiLineStringWithMultiLineString(AsMultiLineString(g1), g2)
    [] h = "LineStringWithMultiPolygon" ->
         hasIntersectionMultiLineStringWithMultiPolygon(AsMultiLineString(g1), g2)
    [] h = "PolygonWithPolygon" -> hasIntersectionPolygonWithPolygon(g1, g2)
    [] h = "PolygonWithMultiPoint" -> hasIntersectionMultiPointWithPolygon(g2, g1)
    [] h = "PolygonWithMultiLineString" ->
         hasIntersectionMultiLineStringWithMultiPolygon(g2, AsMultiPolygon(g1))
    [] h = "PolygonWithMultiPolygon" ->
         hasIntersectionMultiPolygonWithMultiPolygon(AsMultiPolygon(g1), g2)
    [] h = "MultiPointWithMultiPoint" -> hasIntersectionMultiPointWithMultiPoint(g1, g2)
    [] h = "MultiPointWithMultiLineString" ->
         hasIntersectionMultiPointWithMultiLineString(g1, g2)
    [] h = "MultiPointWithMultiPolygon" ->
         hasIntersectionMultiPointWithMultiPolygon(g1, g2)
    [] h = "MultiLineStringWithMultiLineString" ->
         hasIntersectionMultiLineStringWithMultiLineString(g1, g2)
    [] h = "MultiLineStringWithMultiPolygon" ->
         hasIntersectionMultiLineStringWithMultiPolygon(g1, g2)
    [] h = "MultiPolygonWithMultiPolygon" ->
         hasIntersectionMultiPolygonWithMultiPolygon(g1, g2)

RECURSIVE hasIntersection(_, _)
RECURSIVE anyMemberIntersects(_, _, _)

\* The loop of hasIntersection over the members i.. of a collection: "true"
\* at the first member g1 intersects, "panic" when a call panics before.
anyMemberIntersects(g1, gc, i) ==
  IF i > Len(gc.geoms) THEN "false"
  ELSE LET r == hasIntersection(g1, gc.geoms[i])
       IN  IF r # "false" THEN r ELSE anyMemberIntersects(g1, gc, i + 1)

\* hasIntersection: "true", "false", or "panic" when the switch has no case
\* for the pair.
hasIntersection(a, b) ==
  LET g1 == IF rank(a) > rank(b) THEN b ELSE a
      g2 == IF rank(a) > rank(b) THEN a ELSE b
      h == handlerFor(g1, g2)
  IN  IF g2.tag = "GeometryCollection" THEN anyMemberIntersects(g1, g2, 1)
      ELSE IF h = "unhandled" THEN "panic"
      ELSE IF callHandler(h, g1, g2) THEN "true"
      ELSE "false"

\* Geometry.Intersects
Intersects(g, other) == hasIntersection(g, other)

(***************************************************************************)
(* Coordinates types.  A CoordinatesType is the set of the dimensions      *)
(* beyond X and Y; a & b of two of them is what they have in common.  A    *)
(* geometry of this part is a Point, a multiPoint or a geometryCollection, *)
(* each with its ctype.                                                    *)
(***************************************************************************)
DimXY == {}
DimXYZ == {"Z"}
DimXYM == {"M"}
DimXYZM == {"Z", "M"}

CoordinatesTypes == {DimXY, DimXYZ, DimXYM, DimXYZM}

\* NewEmptyPoint(ctype) and NewPoint(c): c holds X (which stands for the
\* XY value), Z and M, and its Type.
NewEmptyPointCT(ctype) ==
  [tag |-> "Point", ctype |-> ctype, empty |-> TRUE, X |-> 0, Z |-> 0, M |-> 0]

NewPoint(c) ==
  [tag |-> "Point", ctype |-> c.Type, empty |-> FALSE, X |-> c.X, Z |-> c.Z, M |-> c.M]

\* Point.Coordinates
Coordinates(pt) == [Type |-> pt.ctype, X |-> pt.X, Z |-> pt.Z, M |-> pt.M]

\* Point.ForceCoordinatesType: a dimension that is added is 0, one that is
\* not in the new type is dropped.
PointForceCoordinatesType(pt, newCType) ==
  [pt EXCEPT !.ctype = newCType,
             !.Z = IF "Z" \in newCType /\ "Z" \in pt.ctype THEN pt.Z ELSE 0,
             !.M = IF "M" \in newCType /\ "M" \in pt.ctype THEN pt.M ELSE 0]

forceCoordinatesTypeOfPointSlice(pts, ctype) ==
  [i \in 1..Len(pts) |-> PointForceCoordinatesType(pts[i], ctype)]

RECURSIVE lowestCommonType(_, _)
\* The type with every dimension that some element has.
highestCommonType(gs, ctype) ==
  IF gs = <<>> THEN ctype
  ELSE lowestCommonType(Tail(gs), ctype \cup Head(gs).ctype)

\* ctype := DimXYZM; for each element ctype &= its CoordinatesType().
lowestCommonType(gs, ctype) ==
  IF gs = <<>> THEN ctype
  ELSE lowestCommonType(Tail(gs), ctype \cap Head(gs).ctype)

\* multiPoint{}: the zero value, no points and the zero CoordinatesType.
ZeroMultiPoint == [tag |-> "MultiPoint", ctype |-> DimXY, points |-> <<>>]

NewMultiPointCT(pts) ==
  IF Len(pts) = 0 THEN ZeroMultiPoint
  ELSE LET ctype == lowestCommonType(pts, DimXYZM)
       IN  [tag |-> "MultiPoint", ctype |-> ctype,
            points |-> forceCoordinatesTypeOfPointSlice(pts, ctype)]

\* geometryCollection{}
ZeroGeometryCollection == [tag |-> "GeometryCollection", ctype |-> DimXY, geoms |-> <<>>]

RECURSIVE ForceCoordinatesType(_, _)
\* ForceCoordinatesType of a Geometry, by its variant.
ForceCoordinatesType(g, newCType) ==
  CASE g.tag = "Point" -> PointForceCoordinatesType(g, newCType)
    [] g.tag = "MultiPoint" ->
         [tag |-> "MultiPoint", ctype |-> newCType,
          points |-> forceCoordinatesTypeOfPointSlice(g.points, newCType)]
    [] g.tag = "GeometryCollection" ->
         [tag |-> "GeometryCollection", ctype |-> newCType,
          geoms |-> [i \in 1..Len(g.geoms) |-> ForceCoordinatesType(g.geoms[i], newCType)]]

NewGeometryCollectionCT(geoms) ==
  IF Len(geoms) = 0 THEN ZeroGeometryCollection
  ELSE LET ctype == lowestCommonType(geoms, DimXYZM)
       IN  [tag |-> "GeometryCollection", ctype |-> ctype,
            geoms |-> [i \in 1..Len(geoms) |-> ForceCoordinatesType(geoms[i], ctype)]]

Force2D(g) == ForceCoordinatesType(g, DimXY)

\* The function handed to TransformXY in this model.
shiftXY(x) == x + 1

\* multiPoint.TransformXY: a new Point for each Point that has coordinates,
\* the others as they are, and NewMultiPoint of them.
multiPointTransformXY(m) ==
  NewMultiPointCT([i \in 1..Len(m.points) |->
                    IF ~m.points[i].empty
                      THEN NewPoint([Coordinates(m.points[i]) EXCEPT !.X = shiftXY(@)])
                      ELSE m.points[i]])

RECURSIVE TransformXY(_)
\* TransformXY of a Geometry, by its variant; for a geometryCollection the
\* transformed children under the ctype it had.
TransformXY(g) ==
  CASE g.tag = "Point" ->
         IF g.empty THEN g ELSE NewPoint([Coordinates(g) EXCEPT !.X = shiftXY(@)])
    [] g.tag = "MultiPoint" -> multiPointTransformXY(g)
    [] g.tag = "GeometryCollection" ->
         [tag |-> "GeometryCollection", ctype |-> g.ctype,
          geoms |-> [i \in 1..Len(g.geoms) |-> TransformXY(g.geoms[i])]]

RECURSIVE GeometryIsEmpty(_)
\* IsEmpty of a Geometry: no element, or only empty elements.
GeometryIsEmpty(g) ==
  CASE g.tag = "Point" -> g.empty
    [] g.tag = "MultiPoint" -> \A i \in 1..Len(g.points) : g.points[i].empty
    [] g.tag = "GeometryCollection" -> \A i \in 1..Len(g.geoms) : GeometryIsEmpty(g.geoms[i])

RECURSIVE Reverse(_)
\* Reverse: a Point and a multiPoint as they are; a geometryCollection that
\* is not empty gets its elements reversed, under its ctype.
Reverse(g) ==
  IF g.tag # "GeometryCollection" \/ GeometryIsEmpty(g) THEN g
  ELSE [tag |-> "GeometryCollection", ctype |-> g.ctype,
        geoms |-> [i \in 1..Len(g.geoms) |-> Reverse(g.geoms[i])]]

RECURSIVE selectNonEmpty(_)
selectNonEmpty(gs) ==
  IF gs = <<>> THEN <<>>
  ELSE IF GeometryIsEmpty(Head(gs)) THEN selectNonEmpty(Tail(gs))
  ELSE <<Head(gs)>> \o selectNonEmpty(Tail(gs))

RECURSIVE BoundaryCT(_)
\* Boundary: of a Point and of a multiPoint the empty geometryCollection;
\* of a geometryCollection that is not empty the boundaries of its
\* elements that are not empty, forced to 2D.
BoundaryCT(g) ==
  IF g.tag # "GeometryCollection" THEN ZeroGeometryCollection
  ELSE IF GeometryIsEmpty(g) THEN g
  ELSE [tag |-> "GeometryCollection", ctype |-> DimXY,
        geoms |-> selectNonEmpty([i \in 1..Len(g.geoms) |-> Force2D(BoundaryCT(g.geoms[i]))])]

CTStart ==
  /\ cur = ZeroMultiPoint
  /\ ctParts = <<>>
  /\ ctOp = "none"
  /\ ctSteps = 0

\* No container is under study.
CTIdle == CTStart

IMStart ==
  /\ arrays = <<>>
  /\ callerRef = 0
  /\ geomRef = 0
  /\ dumpRef = 0
  /\ made = "none"
  /\ reported = <<>>

\* No slice is in play.
IMIdle == IMStart

(***************************************************************************)
(* GeoJSON.  A GeoJSON object is a record of its members as the decoder    *)
(* hands them over: type (the empty string when the member is missing),    *)
(* and coordinates (nested lists of float64 values) or geometries.         *)
(***************************************************************************)
\* The float64 value +Inf, as an ordinate no grid point has.
Inf == -2

\* What UnmarshalGeoJSON returns for a Geometry when it returns an error.
NilGeometry == [tag |-> "nil"]

ErrTypeMissing == "type field missing or empty"
ErrUnknownType == "unknown geojson type"
ErrDimension == "coordinates have incorrect dimension"
ErrNaNOrInf == "coordinate is NaN or inf"
ErrNoOuterRing == "Polygon must have an outer ring"

\* The least element of a set of numbers that is not empty.
least(S) == CHOOSE i \in S : \A k \in S : i <= k

\* The list of two to four numbers that stands for the XY value.
appendGeoJSONCoordinate(xy) == <<xy.X, xy.Y>>

appendGeoJSONSequence(seq) ==
  [i \in 1..Len(seq) |-> appendGeoJSONCoordinate(seq[i])]

RECURSIVE multiPointCoordinates(_)
\* The loop of multiPoint.MarshalJSON: a list for each Point that has
\* coordinates, none for the others.
multiPointCoordinates(pts) ==
  IF pts = <<>> THEN <<>>
  ELSE IF Head(pts).empty THEN multiPointCoordinates(Tail(pts))
  ELSE <<appendGeoJSONCoordinate(Head(pts).xy)>> \o multiPointCoordinates(Tail(pts))

\* The coordinates of the rings of a Polygon.
polygonCoordinates(p) ==
  [r \in 1..Len(rings(p)) |-> appendGeoJSONSequence(rings(p)[r])]

RECURSIVE MarshalJSON(_)
\* MarshalJSON of a Geometry, by its variant.
MarshalJSON(g) ==
  CASE g.tag = "Point" ->
         [type |-> "Point",
          coordinates |-> IF g.empty THEN <<>> ELSE appendGeoJSONCoordinate(g.xy)]
    [] g.tag = "LineString" ->
         [type |-> "LineString", coordinates |-> appendGeoJSONSequence(g.seq)]
    [] g.tag = "Polygon" ->
         [type |-> "Polygon", coordinates |-> polygonCoordinates(g)]
    [] g.tag = "MultiPoint" ->
         [type |-> "MultiPoint", coordinates |-> multiPointCoordinates(g.pts)]
    [] g.tag = "MultiLineString" ->
         [type |-> "MultiLineString",
          coordinates |-> [i \in 1..Len(g.lss) |-> appendGeoJSONSequence(g.lss[i].seq)]]
    [] g.tag = "MultiPolygon" ->
         [type |-> "MultiPolygon",
          coordinates |-> [i \in 1..Len(g.polys) |-> polygonCoordinates(g.polys[i])]]
    [] g.tag = "GeometryCollection" ->
         [type |-> "GeometryCollection",
          geometries |-> [i \in 1..Len(g.geoms) |-> MarshalJSON(g.geoms[i])]]

\* The Coordinates of a list of float64 values: of two to four values, none
\* NaN or infinite; the first two are kept.
oneDimFloat64sToCoordinates(fs) ==
  IF Len(fs) < 2 \/ Len(fs) > 4
    THEN [coords |-> NewXY(0, 0), err |-> ErrDimension]
  ELSE IF \E i \in 1..Len(fs) : fs[i] = NaN \/ fs[i] = Inf
    THEN [coords |-> NewXY(0, 0), err |-> ErrNaNOrInf]
  ELSE [coords |-> NewXY(fs[1], fs[2]), err |-> "nil"]

\* twoDimFloat64sToCoordinates that goes on after an error.
twoDimIgnoringErrors(outer) ==
  LET cs == [i \in 1..Len(outer) |-> oneDimFloat64sToCoordinates(outer[i])]
  IN  [coords |-> [i \in 1..Len(outer) |-> cs[i].coords], err |-> "nil"]

\* The Coordinates of each list, or the first error.
twoDimFloat64sToCoordinates(outer) ==
  LET cs == [i \in 1..Len(outer) |-> oneDimFloat64sToCoordinates(outer[i])]
      failed == { i \in 1..Len(outer) : cs[i].err # "nil" }
  IN  IF failed # {} THEN [coords |-> <<>>, err |-> cs[least(failed)].err]
      ELSE [coords |-> [i \in 1..Len(outer) |-> cs[i].coords], err |-> "nil"]

threeDimFloat64sToCoordinates(outer) ==
  LET cs == [i \in 1..Len(outer) |-> twoDimFloat64sToCoordinates(outer[i])]
      failed == { i \in 1..Len(outer) : cs[i].err # "nil" }
  IN  IF failed # {} THEN [coords |-> <<>>, err |-> cs[least(failed)].err]
      ELSE [coords |-> [i \in 1..Len(outer) |-> cs[i].coords], err |-> "nil"]

fourDimFloat64sToCoordinates(outer) ==
  LET cs == [i \in 1..Len(outer) |-> threeDimFloat64sToCoordinates(outer[i])]
      failed == { i \in 1..Len(outer) : cs[i].err # "nil" }
  IN  IF failed # {} THEN [coords |-> <<>>, err |-> cs[least(failed)].err]
      ELSE [coords |-> [i \in 1..Len(outer) |-> cs[i].coords], err |-> "nil"]

\* NewLineC: the LineString of two points that differ.
NewLineC(a, b) == NewLineString(<<a, b>>, newOptionSet(FALSE, FALSE))

NewLineStringC(crds) == NewLineString(crds, newOptionSet(FALSE, FALSE))

\* The ring of a LineString that is closed and simple.
ringOfLineString(r) ==
  IF r.err # "nil" THEN [ring |-> <<>>, err |-> r.err]
  ELSE IF ~IsClosed(r.ls) \/ IsSimple(r.ls, NewNode) # "true"
    THEN [ring |-> <<>>, err |-> "validationError"]
  ELSE [ring |-> r.ls.seq, err |-> "nil"]

\* NewLinearRing: the ring of a sequence that makes a closed and simple
\* LineString.
NewLinearRing(crds) == ringOfLineString(NewLineStringC(crds))

\* The end of NewPolygonC: the first error of a ring, or NewPolygon of the
\* rings, the first the outer ring.
polygonOfRings(rs) ==
  LET failed == { i \in 1..Len(rs) : rs[i].err # "nil" }
  IN  IF failed # {} THEN [poly |-> ZeroPolygon, err |-> rs[least(failed)].err]
      ELSE NewPolygon(rs[1].ring, [i \in 1..(Len(rs) - 1) |-> rs[i + 1].ring])

\* NewPolygonC: a ring for each list, and the Polygon of the rings.
NewPolygonC(crds) ==
  IF Len(crds) = 0 THEN [poly |-> ZeroPolygon, err |-> ErrNoOuterRing]
  ELSE polygonOfRings([i \in 1..Len(crds) |-> NewLinearRing(crds[i])])

\* NewMultiLineStringC: a LineString for each list.
NewMultiLineStringC(crds) ==
  LET each == [i \in 1..Len(crds) |-> NewLineStringC(crds[i])]
      failed == { i \in 1..Len(crds) : each[i].err # "nil" }
  IN  IF failed # {} THEN [geom |-> NilGeometry, err |-> each[least(failed)].err]
      ELSE [geom |-> NewMultiLineString([i \in 1..Len(crds) |-> LineStringOf(each[i].ls.seq)]),
            err |-> "nil"]

\* One turn of the loop of NewMultiPolygonC: the error of the Polygon, or
\* the Polygon before those of the turns that follow.
appendPolygon(p, rest) ==
  IF p.err # "nil" THEN [polys |-> <<>>, err |-> p.err]
  ELSE IF rest.err # "nil" THEN rest
  ELSE [polys |-> <<PolygonOf(p.poly.outer, p.poly.holes)>> \o rest.polys,
        err |-> "nil"]

RECURSIVE polygonsOfCoords(_)
\* The loop of NewMultiPolygonC: a Polygon for each list that is not empty,
\* or the first error.
polygonsOfCoords(crds) ==
  IF crds = <<>> THEN [polys |-> <<>>, err |-> "nil"]
  ELSE IF Len(Head(crds)) = 0 THEN polygonsOfCoords(Tail(crds))
  ELSE appendPolygon(NewPolygonC(Head(crds)), polygonsOfCoords(Tail(crds)))

\* The end of NewMultiPolygonC: the error of the loop, or NewMultiPolygon.
multiPolygonOfPolygons(ps) ==
  IF ps.err # "nil" THEN [mp |-> ZeroMultiPolygon, err |-> ps.err]
  ELSE NewMultiPolygon(ps.polys, newOptionSet(FALSE, FALSE))

NewMultiPolygonC(crds) == multiPolygonOfPolygons(polygonsOfCoords(crds))

\* A Geometry and no error.
done(g) == [geom |-> g, err |-> "nil"]

\* No Geometry and the error.
failure(e) == [geom |-> NilGeometry, err |-> e]

\* What a constructor returned, as a Geometry and an error.
lineStringResult(r) ==
  IF r.err # "nil" THEN failure(r.err) ELSE done(LineStringOf(r.ls.seq))

polygonResult(r) ==
  IF r.err # "nil" THEN failure(r.err) ELSE done(PolygonOf(r.poly.outer, r.poly.holes))

multiPolygonResult(r) ==
  IF r.err # "nil" THEN failure(r.err) ELSE done(MultiPolygonOf(r.mp.polys))

RECURSIVE UnmarshalGeoJSON(_)
\* UnmarshalGeoJSON: the Geometry of a GeoJSON object, or an error.
UnmarshalGeoJSON(object) ==
  CASE object.type = "Point" ->
         IF Len(object.coordinates) = 0 THEN done(NewEmptyPoint)
         ELSE LET c == oneDimFloat64sToCoordinates(object.coordinates)
              IN  IF c.err # "nil" THEN failure(c.err)
                  ELSE done(newUncheckedPoint(c.coords))
    [] object.type \in {"LineString", "MultiPoint"} ->
         LET c == twoDimFloat64sToCoordinates(object.coordinates)
         IN  IF c.err # "nil" THEN failure(c.err)
             ELSE IF object.type = "MultiPoint"
               THEN done(NewMultiPoint([i \in 1..Len(c.coords) |->
                                          newUncheckedPoint(c.coords[i])]))
             ELSE IF Len(c.coords) = 0 THEN done(LineStringOf(<<>>))
             ELSE IF Len(c.coords) = 2
               THEN lineStringResult(NewLineC(c.coords[1], c.coords[2]))
             ELSE lineStringResult(NewLineStringC(c.coords))
    [] object.type \in {"Polygon", "MultiLineString"} ->
         LET c == threeDimFloat64sToCoordinates(object.coordinates)
         IN  IF c.err # "nil" THEN failure(c.err)
             ELSE IF object.type = "MultiLineString"
               THEN NewMultiLineStringC(c.coords)
             ELSE IF Len(c.coords) = 0 THEN done(PolygonOf(<<>>, <<>>))
             ELSE polygonResult(NewPolygonC(c.coords))
    [] object.type = "MultiPolygon" ->
         LET c == fourDimFloat64sToCoordinates(object.coordinates)
         IN  IF c.err # "nil" THEN failure(c.err)
             ELSE multiPolygonResult(NewMultiPolygonC(c.coords))
    [] object.type = "GeometryCollection" ->
         LET gs == [i \in 1..Len(object.geometries) |->
                      UnmarshalGeoJSON(object.geometries[i])]
             failed == { i \in 1..Len(object.geometries) : gs[i].err # "nil" }
         IN  IF failed # {} THEN failure(gs[least(failed)].err)
             ELSE done(NewGeometryCollection([i \in 1..Len(object.geometries) |->
                                                gs[i].geom]))
    [] object.type = "" -> failure(ErrTypeMissing)
    [] OTHER -> failure(ErrUnknownType)

GJStart ==
  /\ gjGeom = NilGeometry
  /\ doc = [type |-> ""]
  /\ parsed = [geom |-> NilGeometry, err |-> "nil"]
  /\ gjStage = "idle"

\* No GeoJSON is written or read.
GJIdle == GJStart

ECStart ==
  /\ ecOut = [err |-> "nil", children |-> 0, empty |-> TRUE, ctype |-> DimXY]
  /\ ecDone = "input"

\* No constructor is called with a list.
ECIdle ==
  /\ ecKind = "none"
  /\ ecList = <<>>
  /\ ecOpts = newOptionSet(FALSE, FALSE)
  /\ ECStart

(***************************************************************************)
(* Envelopes of LineStrings, MultiPoints and GeometryCollections.          *)
(***************************************************************************)
\* Envelope{}: the empty envelope.
EmptyEnvelope ==
  [empty |-> TRUE, minX |-> 0, minY |-> 0, maxX |-> 0, maxY |-> 0]

\* The envelope extended by a point: the point itself when it was empty.
uncheckedExtend(env, xy) ==
  IF env.empty
    THEN [empty |-> FALSE, minX |-> xy.X, minY |-> xy.Y, maxX |-> xy.X, maxY |-> xy.Y]
    ELSE [empty |-> FALSE,
          minX |-> Min2(env.minX, xy.X), minY |-> Min2(env.minY, xy.Y),
          maxX |-> Max2(env.maxX, xy.X), maxY |-> Max2(env.maxY, xy.Y)]

\* The least envelope that holds both; an empty envelope adds nothing.
ExpandToIncludeEnvelope(env, o) ==
  IF o.empty THEN env
  ELSE IF env.empty THEN o
  ELSE [empty |-> FALSE,
        minX |-> Min2(env.minX, o.minX), minY |-> Min2(env.minY, o.minY),
        maxX |-> Max2(env.maxX, o.maxX), maxY |-> Max2(env.maxY, o.maxY)]

\* Point.Envelope
pointEnvelope(pt) ==
  IF pt.empty THEN EmptyEnvelope ELSE uncheckedExtend(EmptyEnvelope, pt.xy)

RECURSIVE extendFrom(_, _, _)
\* The loop of lineString.Envelope from point i on.
extendFrom(env, seq, i) ==
  IF i >= Len(seq) THEN env
  ELSE extendFrom(uncheckedExtend(env, GetXY(seq, i)), seq, i + 1)

\* The envelope of the first and of the last point only.
lineStringEnvelopeOfEnds(s) ==
  IF Len(s.seq) = 0 THEN EmptyEnvelope
  ELSE uncheckedExtend(uncheckedExtend(EmptyEnvelope, GetXY(s.seq, 0)),
                       GetXY(s.seq, Len(s.seq) - 1))

\* lineString.Envelope
lineStringEnvelope(s) == extendFrom(EmptyEnvelope, s.seq, 0)

RECURSIVE expandFrom(_, _, _)
\* The loop of multiPoint.Envelope and of geometryCollection.Envelope over
\* the envelopes of the children from child i on.
expandFrom(env, envs, i) ==
  IF i > Len(envs) THEN env
  ELSE expandFrom(ExpandToIncludeEnvelope(env, envs[i]), envs, i + 1)

\* multiPoint.Envelope
multiPointEnvelope(m) ==
  expandFrom(EmptyEnvelope, [i \in 1..Len(m.pts) |-> pointEnvelope(m.pts[i])], 1)

RECURSIVE GeometryEnvelope(_)
\* Envelope of a Geometry, by its variant; geometryCollection.Envelope for
\* a collection.
GeometryEnvelope(g) ==
  CASE g.tag = "Point" -> pointEnvelope(g)
    [] g.tag = "LineString" -> lineStringEnvelope(g)
    [] g.tag = "MultiPoint" -> multiPointEnvelope(g)
    [] g.tag = "GeometryCollection" ->
         expandFrom(EmptyEnvelope,
                    [i \in 1..Len(g.geoms) |-> GeometryEnvelope(g.geoms[i])], 1)

(***************************************************************************)
(* PointOnSurface of LineStrings, MultiPoints and GeometryCollections.     *)
(* The lines of the LineStrings run along the axes, so that their lengths  *)
(* are whole numbers; a centroid is the point (X/den, Y/den).              *)
(***************************************************************************)
\* The centroid of nothing: NewEmptyPoint(DimXY).
NoCentroid == [empty |-> TRUE, X |-> 0, Y |-> 0, den |-> 1]

\* line.length of a line along an axis.
lineLength(ln) == Abs(ln.a.X - ln.b.X) + Abs(ln.a.Y - ln.b.Y)

RECURSIVE sumCentroidAndLengthFrom(_, _)
\* The loop of sumCentroidAndLengthOfLineString from line i on: twice the
\* sum of the midpoints weighted by the lengths, and the sum of the lengths.
sumCentroidAndLengthFrom(seq, i) ==
  IF i >= Len(seq) THEN [X2 |-> 0, Y2 |-> 0, sumLength |-> 0]
  ELSE LET ln == getLine(seq, i)
           rest == sumCentroidAndLengthFrom(seq, i + 1)
       IN  IF ~ln.ok THEN rest
           ELSE [X2 |-> rest.X2 + (ln.a.X + ln.b.X) * lineLength(ln),
                 Y2 |-> rest.Y2 + (ln.a.Y + ln.b.Y) * lineLength(ln),
                 sumLength |-> rest.sumLength + lineLength(ln)]

sumCentroidAndLengthOfLineString(s) == sumCentroidAndLengthFrom(s.seq, 0)

\* lineString.Centroid
lineStringCentroid(s) ==
  LET sums == sumCentroidAndLengthOfLineString(s)
  IN  IF sums.sumLength = 0 THEN NoCentroid
      ELSE [empty |-> FALSE, X |-> sums.X2, Y |-> sums.Y2, den |-> 2 * sums.sumLength]

RECURSIVE sumPointsFrom(_, _)
\* The sum and the number of the points from the i-th on that are not empty.
sumPointsFrom(pts, i) ==
  IF i > Len(pts) THEN [X |-> 0, Y |-> 0, n |-> 0]
  ELSE LET rest == sumPointsFrom(pts, i + 1)
       IN  IF pts[i].empty THEN rest
           ELSE [X |-> rest.X + pts[i].xy.X, Y |-> rest.Y + pts[i].xy.Y, n |-> rest.n + 1]

\* multiPoint.Centroid
multiPointCentroid(m) ==
  LET sum == sumPointsFrom(m.pts, 1)
  IN  IF sum.n = 0 THEN NoCentroid
      ELSE [empty |-> FALSE, X |-> sum.X, Y |-> sum.Y, den |-> sum.n]

RECURSIVE isEmptyGeometry(_)
\* IsEmpty of a Point, a lineString, a multiPoint and a geometryCollection.
isEmptyGeometry(g) ==
  CASE g.tag = "Point" -> g.empty
    [] g.tag = "LineString" -> IsEmpty(g)
    [] g.tag = "MultiPoint" -> \A i \in 1..Len(g.pts) : g.pts[i].empty
    [] g.tag = "GeometryCollection" ->
         \A i \in 1..Len(g.geoms) : isEmptyGeometry(g.geoms[i])

RECURSIVE Dimension(_)
\* Dimension: 0 for Points and MultiPoints, 1 for LineStrings, the largest
\* of the members for a collection.
Dimension(g) ==
  CASE g.tag = "Point" -> 0
    [] g.tag = "MultiPoint" -> 0
    [] g.tag = "LineString" -> 1
    [] g.tag = "GeometryCollection" ->
         LET RECURSIVE from(_)
             from(i) == IF i > Len(g.geoms) THEN 0
                        ELSE Max2(Dimension(g.geoms[i]), from(i + 1))
         IN  from(1)

RECURSIVE highestDimensionIgnoreEmpties(_)
highestDimensionIgnoreEmpties(g) ==
  IF isEmptyGeometry(g) THEN 0
  ELSE IF g.tag # "GeometryCollection" THEN Dimension(g)
  ELSE LET RECURSIVE from(_)
           from(i) == IF i > Len(g.geoms) THEN 0
                      ELSE Max2(highestDimensionIgnoreEmpties(g.geoms[i]), from(i + 1))
       IN  from(1)

RECURSIVE walk(_)
\* geometryCollection.walk: the leaves the callback is called with, in order.
walk(c) ==
  LET RECURSIVE from(_)
      from(i) == IF i > Len(c.geoms) THEN <<>>
                 ELSE (IF c.geoms[i].tag = "GeometryCollection"
                         THEN walk(c.geoms[i]) ELSE <<c.geoms[i]>>) \o from(i + 1)
  IN  from(1)

RECURSIVE pointCentroidFrom(_, _)
\* The walk of pointCentroid from leaf i on: the sum and the number of the
\* points of the Points and MultiPoints.
pointCentroidFrom(leaves, i) ==
  IF i > Len(leaves) THEN [X |-> 0, Y |-> 0, n |-> 0]
  ELSE LET rest == pointCentroidFrom(leaves, i + 1)
           here == IF leaves[i].tag = "Point" THEN sumPointsFrom(<<leaves[i]>>, 1)
                   ELSE IF leaves[i].tag = "MultiPoint" THEN sumPointsFrom(leaves[i].pts, 1)
                   ELSE [X |-> 0, Y |-> 0, n |-> 0]
       IN  [X |-> rest.X + here.X, Y |-> rest.Y + here.Y, n |-> rest.n + here.n]

\* geometryCollection.pointCentroid; the division by zero points gives a
\* point of NaNs.
pointCentroid(c) ==
  LET sum == pointCentroidFrom(walk(c), 1)
  IN  IF sum.n = 0 THEN [empty |-> FALSE, X |-> NaN, Y |-> NaN, den |-> 1]
      ELSE [empty |-> FALSE, X |-> sum.X, Y |-> sum.Y, den |-> sum.n]

RECURSIVE linearCentroidFrom(_, _)
\* The walk of linearCentroid from leaf i on: twice the sum of the centroids
\* of the LineStrings weighted by their lengths, and the sum of the lengths.
linearCentroidFrom(leaves, i) ==
  IF i > Len(leaves) THEN [X2 |-> 0, Y2 |-> 0, sumLength |-> 0]
  ELSE LET rest == linearCentroidFrom(leaves, i + 1)
           sums == IF leaves[i].tag = "LineString"
                     THEN sumCentroidAndLengthOfLineString(leaves[i])
                     ELSE [X2 |-> 0, Y2 |-> 0, sumLength |-> 0]
       IN  [X2 |-> rest.X2 + sums.X2, Y2 |-> rest.Y2 + sums.Y2,
            sumLength |-> rest.sumLength + sums.sumLength]

\* geometryCollection.linearCentroid
linearCentroid(c) ==
  LET sums == linearCentroidFrom(walk(c), 1)
  IN  IF sums.sumLength = 0 THEN [empty |-> FALSE, X |-> NaN, Y |-> NaN, den |-> 1]
      ELSE [empty |-> FALSE, X |-> sums.X2, Y |-> sums.Y2, den |-> 2 * sums.sumLength]

\* geometryCollection.Centroid, for collections of no and of one dimension.
geometryCollectionCentroid(c) ==
  IF isEmptyGeometry(c) THEN NoCentroid
  ELSE IF highestDimensionIgnoreEmpties(c) = 0 THEN pointCentroid(c)
  ELSE linearCentroid(c)

\* newNearestPointAccumulator: no point yet.
newNearestPointAccumulator(target) ==
  [target |-> target, point |-> NewEmptyPoint, dist |-> 0]

\* The square of the distance from the target to the point, times the
\* square of the target's denominator.
distanceTo(target, xy) ==
  (target.X - target.den * xy.X) * (target.X - target.den * xy.X)
    + (target.Y - target.den * xy.Y) * (target.Y - target.den * xy.Y)

\* nearestPointAccumulator.consider: the candidate becomes the point when it
\* is the first one or nearer to the target than the point so far.
consider(nearest, candidate) ==
  IF candidate.empty \/ nearest.target.empty THEN nearest
  ELSE IF nearest.point.empty \/ distanceTo(nearest.target, candidate.xy) < nearest.dist
    THEN [nearest EXCEPT !.point = candidate,
                         !.dist = distanceTo(nearest.target, candidate.xy)]
    ELSE nearest

RECURSIVE considerFrom(_, _, _)
\* The candidates from the i-th on are considered in order.
considerFrom(nearest, candidates, i) ==
  IF i > Len(candidates) THEN nearest
  ELSE considerFrom(consider(nearest, candidates[i]), candidates, i + 1)

\* lineString.EndPoint
EndPoint(s) ==
  IF IsEmpty(s) THEN NewEmptyPoint
  ELSE newUncheckedPoint(GetXY(s.seq, Len(s.seq) - 1))

\* The point of the accumulator, or of the start and the end point when it
\* has none.
lineStringPointOrEnds(s, nearest) ==
  IF ~nearest.point.empty THEN nearest.point
  ELSE consider(consider(nearest, StartPoint(s)), EndPoint(s)).point

\* lineString.PointOnSurface that never looks at the start and end points.
lineStringPointOnSurfaceInnerOnly(s) ==
  considerFrom(newNearestPointAccumulator(lineStringCentroid(s)),
               [i \in 1..(Len(s.seq) - 2) |-> newUncheckedPoint(GetXY(s.seq, i))], 1).point

\* lineString.PointOnSurface
lineStringPointOnSurface(s) ==
  lineStringPointOrEnds(s,
    considerFrom(newNearestPointAccumulator(lineStringCentroid(s)),
                 [i \in 1..(Len(s.seq) - 2) |-> newUncheckedPoint(GetXY(s.seq, i))], 1))

\* multiPoint.PointOnSurface
multiPointPointOnSurface(m) ==
  considerFrom(newNearestPointAccumulator(multiPointCentroid(m)), m.pts, 1).point

RECURSIVE maxDimFrom(_, _)
\* The first walk of geometryCollection.PointOnSurface: the largest
\* dimension of the leaves that are not empty.
maxDimFrom(leaves, i) ==
  IF i > Len(leaves) THEN 0
  ELSE IF isEmptyGeometry(leaves[i]) THEN maxDimFrom(leaves, i + 1)
  ELSE Max2(Dimension(leaves[i]), maxDimFrom(leaves, i + 1))

\* PointOnSurface of a leaf of a collection.
leafPointOnSurface(g) ==
  CASE g.tag = "Point" -> g
    [] g.tag = "LineString" -> lineStringPointOnSurface(g)
    [] g.tag = "MultiPoint" -> multiPointPointOnSurface(g)

RECURSIVE considerLeaves(_, _, _, _)
\* The second walk: the point on the surface of every leaf of the largest
\* dimension is considered.
considerLeaves(nearest, leaves, maxDim, i) ==
  IF i > Len(leaves) THEN nearest
  ELSE considerLeaves(
         IF Dimension(leaves[i]) = maxDim
           THEN consider(nearest, leafPointOnSurface(leaves[i]))
           ELSE nearest,
         leaves, maxDim, i + 1)

\* geometryCollection.PointOnSurface
geometryCollectionPointOnSurface(c) ==
  considerLeaves(newNearestPointAccumulator(geometryCollectionCentroid(c)),
                 walk(c), maxDimFrom(walk(c), 1), 1).point

\* Geometry.PointOnSurface
PointOnSurface(g) ==
  IF g.tag = "GeometryCollection" THEN geometryCollectionPointOnSurface(g)
  ELSE leafPointOnSurface(g)

AccStart ==
  /\ accOp = "none"
  /\ accEnv = EmptyEnvelope
  /\ accPt = NewEmptyPoint

\* No method is called on a geometry.
AccIdle ==
  /\ subject = NewEmptyPoint
  /\ AccStart

(***************************************************************************)
(* hasIntersectionBetweenLines with its extension.  The envelope of the    *)
(* intersection points has rational bounds n/d, d > 0.                     *)
(***************************************************************************)
ratLess(p, q) == p.n * q.d < q.n * p.d

ratEq(p, q) == p.n * q.d = q.n * p.d

ratMin(p, q) == IF ratLess(q, p) THEN q ELSE p

ratMax(p, q) == IF ratLess(p, q) THEN q ELSE p

\* The zero Envelope of `var env Envelope`.
ZeroEnvelope ==
  [minX |-> [n |-> 0, d |-> 1], minY |-> [n |-> 0, d |-> 1],
   maxX |-> [n |-> 0, d |-> 1], maxY |-> [n |-> 0, d |-> 1]]

\* NewEnvelope(xy): the envelope of one point.
NewEnvelope(xy) ==
  [minX |-> [n |-> xy.X, d |-> xy.D], minY |-> [n |-> xy.Y, d |-> xy.D],
   maxX |-> [n |-> xy.X, d |-> xy.D], maxY |-> [n |-> xy.Y, d |-> xy.D]]

\* Envelope.ExtendToIncludePoint
ExtendToIncludePoint(env, xy) ==
  [minX |-> ratMin(env.minX, [n |-> xy.X, d |-> xy.D]),
   minY |-> ratMin(env.minY, [n |-> xy.Y, d |-> xy.D]),
   maxX |-> ratMax(env.maxX, [n |-> xy.X, d |-> xy.D]),
   maxY |-> ratMax(env.maxY, [n |-> xy.Y, d |-> xy.D])]

\* env.Min() != env.Max()
minIsNotMax(env) == ~(ratEq(env.minX, env.maxX) /\ ratEq(env.minY, env.maxY))

\* The callback that starts the envelope anew at every single point.
betweenLinesVisitReplacing(st, lnA, lnB, populateExtension) ==
  LET inter == intersectLine(lnA, lnB)
  IN  IF inter.empty THEN [st EXCEPT !.stop = FALSE]
      ELSE IF ~populateExtension \/ inter.ptA # inter.ptB
        THEN [env |-> ExtendToIncludePoint(NewEnvelope(inter.ptA), inter.ptB),
              envPopulated |-> TRUE, stop |-> TRUE]
      ELSE [env |-> NewEnvelope(inter.ptA), envPopulated |-> TRUE, stop |-> FALSE]

\* The callback of hasIntersectionBetweenLines for the line lnA of lines2,
\* called with the line lnB of lines1: the envelope and the flag after it,
\* and whether it returned rtree.Stop.
betweenLinesVisit(st, lnA, lnB, populateExtension) ==
  LET inter == intersectLine(lnA, lnB)
  IN  IF inter.empty THEN [st EXCEPT !.stop = FALSE]
      ELSE IF ~populateExtension \/ inter.ptA # inter.ptB
        THEN [env |-> ExtendToIncludePoint(NewEnvelope(inter.ptA), inter.ptB),
              envPopulated |-> TRUE, stop |-> TRUE]
      ELSE IF ~st.envPopulated
        THEN [env |-> NewEnvelope(inter.ptA), envPopulated |-> TRUE, stop |-> FALSE]
      ELSE [env |-> ExtendToIncludePoint(st.env, inter.ptA),
            envPopulated |-> TRUE,
            stop |-> minIsNotMax(ExtendToIncludePoint(st.env, inter.ptA))]

\* A search that ends after the first record it visits, whatever the
\* callback returned.
betweenLinesSearchFirstOnly(st, lnA, lns1, records, populateExtension) ==
  IF records = <<>> THEN st
  ELSE betweenLinesVisit(st, lnA, lns1[Head(records) + 1], populateExtension)

RECURSIVE betweenLinesSearch(_, _, _, _, _)
\* One search of the tree: the callback is called with the records the
\* search visits, in order, until it returns rtree.Stop.
betweenLinesSearch(st, lnA, lns1, records, populateExtension) ==
  IF records = <<>> THEN st
  ELSE LET next == betweenLinesVisit(st, lnA, lns1[Head(records) + 1], populateExtension)
       IN  IF next.stop THEN next
           ELSE betweenLinesSearch(next, lnA, lns1, Tail(records), populateExtension)

RECURSIVE betweenLinesFrom(_, _, _, _, _, _)
\* The loop over lines2 from line a on: one search per line, whatever the
\* searches before it returned.
betweenLinesFrom(st, t, lns1, lns2, a, populateExtension) ==
  IF a > Len(lns2) THEN st
  ELSE betweenLinesFrom(
         betweenLinesSearch(st, lns2[a], lns1, RangeSearch(t, box(lns2[a])),
                            populateExtension),
         t, lns1, lns2, a + 1, populateExtension)

\* What hasIntersectionBetweenLines returns for the envelope and the flag
\* its loop ends with.
betweenLinesResult(st, populateExtension) ==
  [hit |-> st.envPopulated,
   multiplePoints |-> populateExtension /\ st.envPopulated /\ minIsNotMax(st.env),
   singlePoint |-> IF populateExtension THEN <<st.env.minX, st.env.minY>>
                   ELSE <<[n |-> 0, d |-> 1], [n |-> 0, d |-> 1]>>]

\* hasIntersectionBetweenLines(lines1, lines2, populateExtension)
hasIntersectionBetweenLinesExt(lns1, lns2, populateExtension, pooled) ==
  betweenLinesResult(
    betweenLinesFrom(
      [env |-> ZeroEnvelope, envPopulated |-> FALSE, stop |-> FALSE],
      BulkLoad([i \in 1..Len(lns1) |-> [Box |-> box(lns1[i]), RecordID |-> i - 1]], pooled),
      lns1, lns2, 1, populateExtension),
    populateExtension)

NoResult ==
  [hit |-> FALSE, multiplePoints |-> FALSE,
   singlePoint |-> <<[n |-> 0, d |-> 1], [n |-> 0, d |-> 1]>>]

BLStart ==
  /\ populate = FALSE
  /\ blOut = NoResult
  /\ blDone = "input"

\* hasIntersectionBetweenLines is not called on lists of lines.
BLIdle ==
  /\ treeLines = <<>>
  /\ probeLines = <<>>
  /\ BLStart

(***************************************************************************)
(* The R-tree as a state machine: a list of items is bulk loaded, and the    *)
(* tree is searched.                                                       *)
(***************************************************************************)
\* The sequences of at most n elements of S.
BoundedSeq(S, n) == UNION { [1..k -> S] : k \in 0..n }

\* The boxes items are drawn from: a point, a wide box and a tall box, so
\* that both sort axes occur.
ItemBoxes ==
  { NewBox(0, 0, 0, 0), NewBox(1, 2, 3, 2), NewBox(2, 0, 2, 3) }

\* The boxes searched for.
QueryBoxes ==
  { NewBox(0, 0, 0, 0), NewBox(1, 1, 1, 2), NewBox(3, 3, 4, 4), NewBox(0, 0, 3, 3) }

RTInit ==
  /\ nodePool = NewNode
  /\ rtItems = <<>>
  /\ tree = BulkLoad(<<>>, NewNode)
  /\ query = NewBox(0, 0, 0, 0)
  /\ visited = <<>>
  /\ rtDone = "load"

\* A node a finished tree gave back to the pool as it was: a leaf of three
\* records.
ReleasedLeaf ==
  [isLeaf |-> TRUE, numEntries |-> 3,
   entries |-> [i \in 1..(1 + maxChildren) |->
      IF i <= 3 THEN [box |-> NewBox(i, i, i, i), recordID |-> 6 + i, child |-> NilNode]
      ELSE ZeroEntry]]

\* A node given back to the pool as it was: an internal node of two leaves.
ReleasedInternal ==
  [isLeaf |-> FALSE, numEntries |-> 2,
   entries |-> [i \in 1..(1 + maxChildren) |->
      IF i <= 2 THEN [box |-> NewBox(1, 1, 3, 3), recordID |-> 0, child |-> ReleasedLeaf]
      ELSE ZeroEntry]]

\* What nodePool.Get() may return: a new node, or a node that was in use.
PoolNodes == {NewNode, ReleasedLeaf, ReleasedInternal}

\* The R-tree calls start with any node in the pool.
PoolInit ==
  /\ nodePool \in PoolNodes
  /\ rtItems = <<>>
  /\ tree = BulkLoad(<<>>, NewNode)
  /\ query = NewBox(0, 0, 0, 0)
  /\ visited = <<>>
  /\ rtDone = "load"

\* BulkLoad is called with a list one item longer than the last; the
\* record ID of an item is its index in the caller's list.
DoBulkLoad ==
  /\ Len(rtItems) < MaxItems
  /\ \E b \in ItemBoxes :
       LET list == Append(rtItems, [Box |-> b, RecordID |-> Len(rtItems)])
       IN  /\ rtItems' = list
           /\ tree' = BulkLoad(list, nodePool)
  /\ query' = NewBox(0, 0, 0, 0)
  /\ visited' = <<>>
  /\ rtDone' = "load"
  /\ UNCHANGED nodePool
  /\ UNCHANGED <<lsVars, polyVars, mpVars, ptVars, intVars, ctVars, imVars, gjVars, ecVars, accVars, blVars>>

DoRangeSearch ==
  /\ \E q \in QueryBoxes :
       /\ query' = q
       /\ visited' = RangeSearch(tree, q)
  /\ rtDone' = "search"
  /\ UNCHANGED <<nodePool, rtItems, tree>>
  /\ UNCHANGED <<lsVars, polyVars, mpVars, ptVars, intVars, ctVars, imVars, gjVars, ecVars, accVars, blVars>>

RTNext == DoBulkLoad \/ DoRangeSearch

(***************************************************************************)
(* LineStrings as a state machine: a sequence is handed to NewLineString,  *)
(* and the LineString it returns is asked whether it is simple.            *)
(***************************************************************************)
\* The ordinates of the points handed to NewLineString with options.
CtorPoints == { NewXY(x, y) : x \in {0, 1, NaN}, y \in {0, 1, NaN} }

\* The grid of the LineStrings IsSimple is asked about.
LineGrid == { NewXY(x, y) : x \in 0..2, y \in 0..1 }

\* LINESTRING(0 0, 2 2, 2 0, 0 2)
CrossingLine == <<NewXY(0, 0), NewXY(2, 2), NewXY(2, 0), NewXY(0, 2)>>

\* LINESTRING(0 0, 1 1, 0 0)
RetracedLine == <<NewXY(0, 0), NewXY(1, 1), NewXY(0, 0)>>

NoOptions == newOptionSet(FALSE, FALSE)

OptionSets == { newOptionSet(skip, omit) : skip \in BOOLEAN, omit \in BOOLEAN }

LSStart ==
  /\ ls = EmptyLineString
  /\ err = "nil"
  /\ simple = "true"
  /\ lsDone = "input"

\* No LineString is in play.
LSIdle ==
  /\ input = <<>>
  /\ opts = NoOptions
  /\ LSStart

\* Intersects is not called.
IntIdle ==
  /\ ga = NewEmptyPoint
  /\ gb = NewEmptyPoint
  /\ hit = "none"
  /\ hitSwapped = "none"

\* No R-tree is in play, other than the ones IsSimple builds.
RTIdle == RTInit

SimpleInit ==
  /\ input \in BoundedSeq(LineGrid, MaxPts) \cup {CrossingLine}
  /\ opts = NoOptions
  /\ LSStart

DoNewLineString ==
  /\ lsDone = "input"
  /\ LET r == NewLineString(input, opts)
     IN  /\ ls' = r.ls
         /\ err' = r.err
  /\ lsDone' = "new"
  /\ UNCHANGED <<input, opts, simple>>
  /\ UNCHANGED <<rtVars, polyVars, mpVars, ptVars, intVars, ctVars, imVars, gjVars, ecVars, accVars, blVars>>

\* IsSimple is asked of a LineString of grid points.
DoIsSimple ==
  /\ lsDone = "new"
  /\ err = "nil"
  /\ validate(ls.seq)
  /\ simple' = IsSimple(ls, nodePool)
  /\ lsDone' = "simple"
  /\ UNCHANGED <<input, opts, ls, err>>
  /\ UNCHANGED <<rtVars, polyVars, mpVars, ptVars, intVars, ctVars, imVars, gjVars, ecVars, accVars, blVars>>

LSNext == DoNewLineString \/ DoIsSimple

(***************************************************************************)
(* Polygons as a state machine: rings are handed to NewPolygon.            *)
(***************************************************************************)
\* The ring around the rectangle from (0, 0) to (w, h).
Rect(w, h) ==
  <<NewXY(0, 0), NewXY(w, 0), NewXY(w, h), NewXY(0, h), NewXY(0, 0)>>

UnitSquare(x, y) ==
  <<NewXY(x, y), NewXY(x + 1, y), NewXY(x + 1, y + 1), NewXY(x, y + 1), NewXY(x, y)>>

\* Half a unit square, the right angle at the lower left corner.
LowerLeft(x, y) ==
  <<NewXY(x, y), NewXY(x + 1, y), NewXY(x, y + 1), NewXY(x, y)>>

\* Half a unit square, the right angle at the lower right corner.
LowerRight(x, y) ==
  <<NewXY(x, y), NewXY(x + 1, y), NewXY(x + 1, y + 1), NewXY(x, y)>>

\* A triangle whose longest side runs from (3, 0) to (0, 3).
BigTriangle == <<NewXY(0, 0), NewXY(3, 0), NewXY(0, 3), NewXY(0, 0)>>

\* An L: the square from (0, 0) to (3, 3) without the square from (1, 1).
LShape ==
  <<NewXY(0, 0), NewXY(3, 0), NewXY(3, 1), NewXY(1, 1), NewXY(1, 3),
    NewXY(0, 3), NewXY(0, 0)>>

\* The square from (0, 0) to (4, 4) without the square from (0, 2) to
\* (2, 4): the corner at (2, 2) points into the ring.
Notched ==
  <<NewXY(0, 0), NewXY(4, 0), NewXY(4, 4), NewXY(2, 4), NewXY(2, 2),
    NewXY(0, 2), NewXY(0, 0)>>

\* The outer rings: convex ones, one with a slanted side, two that are not
\* convex.
OuterRings == { Rect(3, 3), Rect(2, 3), BigTriangle, LShape, Notched }

\* The holes: unit squares and triangles anywhere in the square to (3, 3).
HoleRings ==
  UNION { { UnitSquare(x, y), LowerLeft(x, y), LowerRight(x, y) }
          : x \in 0..2, y \in 0..2 }

PolyStart ==
  /\ newPoly = ZeroPolygon
  /\ polyErr = "nil"
  /\ polyDone = "input"

\* No Polygon is under construction.
PolyIdle ==
  /\ outerRing = Rect(3, 3)
  /\ holeRings = <<>>
  /\ PolyStart

PolyInit ==
  /\ outerRing \in OuterRings
  /\ holeRings \in BoundedSeq(HoleRings, MaxHoles)
  /\ PolyStart

DoNewPolygon ==
  /\ polyDone = "input"
  /\ LET r == NewPolygon(outerRing, holeRings)
     IN  /\ newPoly' = r.poly
         /\ polyErr' = r.err
  /\ polyDone' = "new"
  /\ UNCHANGED <<outerRing, holeRings>>
  /\ UNCHANGED <<rtVars, lsVars, mpVars, ptVars, intVars, ctVars, imVars, gjVars, ecVars, accVars, blVars>>

PolyNext == DoNewPolygon

(***************************************************************************)
(* The constructors that take options, as a state machine: one call of     *)
(* NewLineString, NewMultiPolygon and NewPointC each, with one option set. *)
(***************************************************************************)
\* The Polygons lists are drawn from: the Polygon without rings, a square,
\* a square with a hole, and Polygons that fill the hole, touch the square
\* along a side, touch it at a corner, lie apart from it, or lie inside it.
PolygonCatalog ==
  { ZeroPolygon,
    [outer |-> Rect(2, 2), holes |-> <<>>],
    [outer |-> Rect(3, 3), holes |-> <<UnitSquare(1, 1)>>],
    [outer |-> UnitSquare(1, 1), holes |-> <<>>],
    [outer |-> UnitSquare(2, 0), holes |-> <<>>],
    [outer |-> UnitSquare(2, 2), holes |-> <<>>],
    [outer |-> UnitSquare(3, 3), holes |-> <<>>],
    [outer |-> LowerLeft(0, 0), holes |-> <<>>] }

MPStart ==
  /\ mp = ZeroMultiPolygon
  /\ mpErr = "nil"
  /\ mpDone = "input"

PtStart ==
  /\ newPt = [coords |-> NewXY(0, 0)]
  /\ ptErr = "nil"
  /\ ptDone = "input"

\* No MultiPolygon and no Point is under construction.
MPIdle == polyList = <<>> /\ MPStart

PtIdle == coords = NewXY(0, 0) /\ PtStart

\* The call under study is the one of NewLineString, of NewMultiPolygon or
\* of NewPointC; the other constructors get a small input.
CtorInit ==
  /\ opts \in OptionSets
  /\ \/ /\ input \in BoundedSeq(CtorPoints, MaxCtorPts)
        /\ polyList = <<>>
        /\ coords = NewXY(0, 0)
     \/ /\ input \in BoundedSeq(CtorPoints, 1)
        /\ polyList \in BoundedSeq(PolygonCatalog, MaxPolys)
        /\ coords = NewXY(0, 0)
     \/ /\ input = <<>>
        /\ polyList = <<>>
        /\ coords \in CtorPoints
  /\ LSStart
  /\ MPStart
  /\ PtStart

DoNewMultiPolygon ==
  /\ mpDone = "input"
  /\ LET r == NewMultiPolygon(polyList, opts)
     IN  /\ mp' = r.mp
         /\ mpErr' = r.err
  /\ mpDone' = "new"
  /\ UNCHANGED polyList
  /\ UNCHANGED <<rtVars, lsVars, polyVars, ptVars, intVars, ctVars, imVars, gjVars, ecVars, accVars, blVars>>

DoNewPointC ==
  /\ ptDone = "input"
  /\ LET r == NewPointC(coords, opts)
     IN  /\ newPt' = r.pt
         /\ ptErr' = r.err
  /\ ptDone' = "new"
  /\ UNCHANGED coords
  /\ UNCHANGED <<rtVars, lsVars, polyVars, mpVars, intVars, ctVars, imVars, gjVars, ecVars, accVars, blVars>>

CtorNext == DoNewLineString \/ DoNewMultiPolygon \/ DoNewPointC

InitRTree == RTInit /\ LSIdle /\ PolyIdle /\ MPIdle /\ PtIdle /\ IntIdle /\ CTIdle /\ IMIdle /\ GJIdle /\ ECIdle /\ AccIdle /\ BLIdle

SpecRTree == InitRTree /\ [][RTNext]_vars

InitPool == PoolInit /\ LSIdle /\ PolyIdle /\ MPIdle /\ PtIdle /\ IntIdle /\ CTIdle /\ IMIdle /\ GJIdle /\ ECIdle /\ AccIdle /\ BLIdle

SpecPool == InitPool /\ [][RTNext]_vars

InitConstructors == CtorInit /\ RTIdle /\ PolyIdle /\ IntIdle /\ CTIdle /\ IMIdle /\ GJIdle /\ ECIdle /\ AccIdle /\ BLIdle

SpecConstructors == InitConstructors /\ [][CtorNext]_vars

InitIsSimple == SimpleInit /\ RTIdle /\ PolyIdle /\ MPIdle /\ PtIdle /\ IntIdle /\ CTIdle /\ IMIdle /\ GJIdle /\ ECIdle /\ AccIdle /\ BLIdle

SpecIsSimple == InitIsSimple /\ [][LSNext]_vars

InitPolygon == PolyInit /\ RTIdle /\ LSIdle /\ MPIdle /\ PtIdle /\ IntIdle /\ CTIdle /\ IMIdle /\ GJIdle /\ ECIdle /\ AccIdle /\ BLIdle

SpecPolygon == InitPolygon /\ [][PolyNext]_vars

(***************************************************************************)
(* Intersects as a state machine: it is called on two geometries, in both  *)
(* orders.                                                                 *)
(***************************************************************************)
\* The Points, and the XY values of the members of MultiPoints.
SomePoints ==
  { NewEmptyPoint, newUncheckedPoint(NewXY(0, 0)), newUncheckedPoint(NewXY(1, 1)),
    newUncheckedPoint(NewXY(2, 3)) }

SomeLineStrings ==
  { LineStringOf(<<>>),
    LineStringOf(<<NewXY(0, 0), NewXY(3, 3)>>),
    LineStringOf(<<NewXY(0, 3), NewXY(2, 1), NewXY(2, 1), NewXY(2, 2)>>),
    LineStringOf(<<NewXY(4, 0), NewXY(4, 4)>>) }

\* Polygons: without rings, a square, the same with a hole, a square inside
\* the first (it fills the hole of the second), and a triangle apart.
SomePolygons ==
  { PolygonOf(<<>>, <<>>),
    PolygonOf(Rect(3, 3), <<>>),
    PolygonOf(Rect(3, 3), <<UnitSquare(1, 1)>>),
    PolygonOf(UnitSquare(1, 1), <<>>),
    PolygonOf(LowerRight(3, 3), <<>>) }

SomeMultiPoints ==
  { NewMultiPoint(<<>>),
    NewMultiPoint(<<NewEmptyPoint>>),
    NewMultiPoint(<<NewEmptyPoint, newUncheckedPoint(NewXY(2, 2))>>),
    NewMultiPoint(<<newUncheckedPoint(NewXY(4, 4)), newUncheckedPoint(NewXY(0, 3))>>) }

SomeMultiLineStrings ==
  { NewMultiLineString(<<>>),
    NewMultiLineString(<<LineStringOf(<<>>)>>),
    NewMultiLineString(<<LineStringOf(<<NewXY(0, 1), NewXY(1, 0)>>),
                         LineStringOf(<<NewXY(3, 4), NewXY(4, 3)>>)>>) }

SomeMultiPolygons ==
  { MultiPolygonOf(<<>>),
    MultiPolygonOf(<<PolygonOf(UnitSquare(1, 1), <<>>)>>),
    MultiPolygonOf(<<PolygonOf(LowerLeft(0, 0), <<>>), PolygonOf(UnitSquare(2, 2), <<>>)>>) }

\* The members of collections.
Members ==
  { newUncheckedPoint(NewXY(1, 1)),
    LineStringOf(<<NewXY(0, 3), NewXY(3, 0)>>),
    PolygonOf(UnitSquare(2, 2), <<>>) }

\* Collections of the members, and collections of one such collection.
FlatCollections ==
  { NewGeometryCollection(s) : s \in BoundedSeq(Members, MaxMembers) }

NestedCollections ==
  { NewGeometryCollection(<<c>>) : c \in FlatCollections }

\* A MultiPolygon and collections that have children, all of them empty.
EmptyOfEmpties ==
  { MultiPolygonOf(<<PolygonOf(<<>>, <<>>)>>),
    NewGeometryCollection(<<NewEmptyPoint, LineStringOf(<<>>)>>),
    NewGeometryCollection(<<PolygonOf(<<>>, <<>>), NewMultiPoint(<<NewEmptyPoint>>)>>) }

Geometries ==
  SomePoints \cup SomeLineStrings \cup SomePolygons \cup SomeMultiPoints
    \cup SomeMultiLineStrings \cup SomeMultiPolygons
    \cup FlatCollections \cup NestedCollections \cup EmptyOfEmpties

IntInit ==
  /\ ga \in Geometries
  /\ gb \in Geometries
  /\ hit = "none"
  /\ hitSwapped = "none"

DoIntersects ==
  /\ hit = "none"
  /\ hit' = Intersects(ga, gb)
  /\ UNCHANGED <<ga, gb, hitSwapped>>
  /\ UNCHANGED <<rtVars, lsVars, polyVars, mpVars, ptVars, ctVars, imVars, gjVars, ecVars, accVars, blVars>>

DoIntersectsSwapped ==
  /\ hitSwapped = "none"
  /\ hitSwapped' = Intersects(gb, ga)
  /\ UNCHANGED <<ga, gb, hit>>
  /\ UNCHANGED <<rtVars, lsVars, polyVars, mpVars, ptVars, ctVars, imVars, gjVars, ecVars, accVars, blVars>>

IntNext == DoIntersects \/ DoIntersectsSwapped

InitIntersects == IntInit /\ RTIdle /\ LSIdle /\ PolyIdle /\ MPIdle /\ PtIdle /\ CTIdle /\ IMIdle /\ GJIdle /\ ECIdle /\ AccIdle /\ BLIdle

SpecIntersects == InitIntersects /\ [][IntNext]_vars

(***************************************************************************)
(* Control points of a constructed Polygon, tested against it.             *)
(***************************************************************************)
\* A square of side 3 from (1, 1): a hole wide enough to hold the unit
\* square from (2, 2).
WideSquare ==
  <<NewXY(1, 1), NewXY(4, 1), NewXY(4, 4), NewXY(1, 4), NewXY(1, 1)>>

ControlInit ==
  /\ outerRing \in OuterRings \cup { Rect(5, 5) }
  /\ holeRings \in BoundedSeq(HoleRings \cup { WideSquare }, MaxHoles)
  /\ PolyStart

\* Intersects(Point(v), p) for a control point v of a ring of the Polygon
\* that NewPolygon returned.
DoIntersectsControlPoint ==
  /\ polyDone = "new" /\ polyErr = "nil"
  /\ hit = "none"
  /\ \E r \in 1..Len(rings(newPoly)) : \E k \in 1..Len(rings(newPoly)[r]) :
       /\ ga' = newUncheckedPoint(rings(newPoly)[r][k])
       /\ gb' = PolygonOf(newPoly.outer, newPoly.holes)
       /\ hit' = Intersects(ga', gb')
  /\ UNCHANGED hitSwapped
  /\ UNCHANGED <<rtVars, lsVars, polyVars, mpVars, ptVars, ctVars, imVars, gjVars, ecVars, accVars, blVars>>

ControlNext == DoNewPolygon \/ DoIntersectsControlPoint

InitControlPoints == ControlInit /\ RTIdle /\ LSIdle /\ MPIdle /\ PtIdle /\ IntIdle /\ CTIdle /\ IMIdle /\ GJIdle /\ ECIdle /\ AccIdle /\ BLIdle

SpecControlPoints == InitControlPoints /\ [][ControlNext]_vars

(***************************************************************************)
(* NewMultiPolygon on lists long enough for the sweep to drop Polygons.    *)
(***************************************************************************)
MaxSweepPolys == 3

\* A flat Polygon as wide as all the others together.
WideStrip ==
  [outer |-> <<NewXY(0, 3), NewXY(4, 3), NewXY(4, 4), NewXY(0, 4), NewXY(0, 3)>>,
   holes |-> <<>>]

\* A square on its corner, its control points in the middle of the sides
\* of the square to (2, 2).
Diamond ==
  [outer |-> <<NewXY(1, 0), NewXY(2, 1), NewXY(1, 2), NewXY(0, 1), NewXY(1, 0)>>,
   holes |-> <<>>]

SweepInit ==
  /\ polyList \in BoundedSeq(PolygonCatalog \cup { WideStrip, Diamond }, MaxSweepPolys)
  /\ opts = NoOptions
  /\ input = <<>>
  /\ coords = NewXY(0, 0)
  /\ LSStart
  /\ MPStart
  /\ PtStart

SweepNext == DoNewMultiPolygon

InitSweep == SweepInit /\ RTIdle /\ PolyIdle /\ IntIdle /\ CTIdle /\ IMIdle /\ GJIdle /\ ECIdle /\ AccIdle /\ BLIdle

SpecSweep == InitSweep /\ [][SweepNext]_vars

(***************************************************************************)
(* Containers and their coordinates types: a multiPoint or a               *)
(* geometryCollection is constructed, and the operations that derive a     *)
(* geometry from it are applied, one after another.                        *)
(***************************************************************************)
MaxChildren == 2
MaxNesting == 2
MaxOps == 4

\* The Points to construct from: of each kind of use, with values in the
\* dimensions they have, and empty ones.
TypedPoints ==
  { NewPoint([Type |-> DimXY, X |-> 0, Z |-> 0, M |-> 0]),
    NewPoint([Type |-> DimXYZ, X |-> 0, Z |-> 5, M |-> 0]),
    NewPoint([Type |-> DimXYZM, X |-> 0, Z |-> 5, M |-> 7]),
    NewEmptyPointCT(DimXYM) }

RECURSIVE nesting(_)
\* How deep the containers of a geometry nest.
nesting(g) ==
  CASE g.tag = "Point" -> 0
    [] g.tag = "MultiPoint" -> 1
    [] g.tag = "GeometryCollection" ->
         1 + (IF g.geoms = <<>> THEN 0
              ELSE CHOOSE d \in { nesting(g.geoms[i]) : i \in 1..Len(g.geoms) } :
                     \A i \in 1..Len(g.geoms) : nesting(g.geoms[i]) <= d)

CTInit == CTStart

DoNewMultiPoint ==
  /\ ctSteps < MaxOps
  /\ ctSteps' = ctSteps + 1
  /\ \E pts \in BoundedSeq(TypedPoints, MaxChildren) :
       /\ cur' = NewMultiPointCT(pts)
       /\ ctParts' = pts
  /\ ctOp' = "NewMultiPoint"
  /\ UNCHANGED <<rtVars, lsVars, polyVars, mpVars, ptVars, intVars, imVars, gjVars, ecVars, accVars, blVars>>

\* The elements are Points and, while it does not nest too deep, the
\* geometry under study.
DoNewGeometryCollection ==
  /\ ctSteps < MaxOps
  /\ ctSteps' = ctSteps + 1
  /\ \E geoms \in BoundedSeq(TypedPoints \cup
                               (IF nesting(cur) < MaxNesting THEN {cur} ELSE {}),
                             MaxChildren) :
       /\ cur' = NewGeometryCollectionCT(geoms)
       /\ ctParts' = geoms
  /\ ctOp' = "NewGeometryCollection"
  /\ UNCHANGED <<rtVars, lsVars, polyVars, mpVars, ptVars, intVars, imVars, gjVars, ecVars, accVars, blVars>>

DoForceCoordinatesType ==
  /\ ctSteps < MaxOps
  /\ ctSteps' = ctSteps + 1
  /\ \E newCType \in CoordinatesTypes : cur' = ForceCoordinatesType(cur, newCType)
  /\ ctOp' = "ForceCoordinatesType"
  /\ ctParts' = <<>>
  /\ UNCHANGED <<rtVars, lsVars, polyVars, mpVars, ptVars, intVars, imVars, gjVars, ecVars, accVars, blVars>>

DoForce2D ==
  /\ ctSteps < MaxOps
  /\ ctSteps' = ctSteps + 1
  /\ cur' = Force2D(cur)
  /\ ctOp' = "Force2D"
  /\ ctParts' = <<>>
  /\ UNCHANGED <<rtVars, lsVars, polyVars, mpVars, ptVars, intVars, imVars, gjVars, ecVars, accVars, blVars>>

DoTransformXY ==
  /\ ctSteps < MaxOps
  /\ ctSteps' = ctSteps + 1
  /\ cur' = TransformXY(cur)
  /\ ctOp' = "TransformXY"
  /\ ctParts' = <<>>
  /\ UNCHANGED <<rtVars, lsVars, polyVars, mpVars, ptVars, intVars, imVars, gjVars, ecVars, accVars, blVars>>

DoReverse ==
  /\ ctSteps < MaxOps
  /\ ctSteps' = ctSteps + 1
  /\ cur' = Reverse(cur)
  /\ ctOp' = "Reverse"
  /\ ctParts' = <<>>
  /\ UNCHANGED <<rtVars, lsVars, polyVars, mpVars, ptVars, intVars, imVars, gjVars, ecVars, accVars, blVars>>

DoBoundary ==
  /\ ctSteps < MaxOps
  /\ ctSteps' = ctSteps + 1
  /\ cur' = BoundaryCT(cur)
  /\ ctOp' = "Boundary"
  /\ ctParts' = <<>>
  /\ UNCHANGED <<rtVars, lsVars, polyVars, mpVars, ptVars, intVars, imVars, gjVars, ecVars, accVars, blVars>>

CTNext ==
  \/ DoNewMultiPoint
  \/ DoNewGeometryCollection
  \/ DoForceCoordinatesType
  \/ DoForce2D
  \/ DoTransformXY
  \/ DoReverse
  \/ DoBoundary

InitCoordinatesTypes == CTInit /\ RTIdle /\ LSIdle /\ PolyIdle /\ MPIdle /\ PtIdle /\ IntIdle /\ IMIdle /\ GJIdle /\ ECIdle /\ AccIdle /\ BLIdle

SpecCoordinatesTypes == InitCoordinatesTypes /\ [][CTNext]_vars

(***************************************************************************)
(* Slices.  A slice is known by the number of its backing array: two       *)
(* slices of one array see each other's writes.  A constructor is called   *)
(* with a slice of the caller, who writes to it afterwards; Dump returns a *)
(* slice, which is written to as well.                                     *)
(***************************************************************************)
\* Polygons of which any list makes a MultiPolygon.
SlicePolygons ==
  { [outer |-> UnitSquare(2, 0), holes |-> <<>>],
    [outer |-> UnitSquare(2, 2), holes |-> <<>>],
    [outer |-> LowerLeft(0, 0), holes |-> <<>>] }

\* The lists of 1 to n elements of S.
NonEmptySeq(S, n) == BoundedSeq(S, n) \ {<<>>}

IMInit == IMStart

\* NewMultiPoint: the Points of the geometry are in the slice that
\* forceCoordinatesTypeOfPointSlice makes.
DoNewMultiPointOfSlice ==
  /\ made = "none"
  /\ \E pts \in NonEmptySeq(TypedPoints, MaxChildren) :
       LET m == NewMultiPointCT(pts)
       IN  /\ arrays' = <<pts, m.points>>
           /\ reported' = m.points
  /\ callerRef' = 1
  /\ geomRef' = 2
  /\ made' = "MultiPoint"
  /\ UNCHANGED dumpRef
  /\ UNCHANGED <<rtVars, lsVars, polyVars, mpVars, ptVars, intVars, ctVars, gjVars, ecVars, accVars, blVars>>

\* NewMultiPolygon: MultiPolygon{polys} holds the slice it was given.
DoNewMultiPolygonOfSlice ==
  /\ made = "none"
  /\ \E polys \in NonEmptySeq(SlicePolygons, MaxChildren), o \in OptionSets :
       LET r == NewMultiPolygon(polys, o)
       IN  /\ r.err = "nil"
           /\ arrays' = <<polys>>
           /\ reported' = r.mp.polys
  /\ callerRef' = 1
  /\ geomRef' = 1
  /\ made' = "MultiPolygon"
  /\ UNCHANGED dumpRef
  /\ UNCHANGED <<rtVars, lsVars, polyVars, mpVars, ptVars, intVars, ctVars, gjVars, ecVars, accVars, blVars>>

\* NewGeometryCollection: geoms = append([]Geometry(nil), geoms...) is a
\* new slice, and the forced elements are written to it.
DoNewGeometryCollectionOfSlice ==
  /\ made = "none"
  /\ \E geoms \in NonEmptySeq(TypedPoints, MaxChildren) :
       LET c == NewGeometryCollectionCT(geoms)
       IN  /\ arrays' = <<geoms, c.geoms>>
           /\ reported' = c.geoms
  /\ callerRef' = 1
  /\ geomRef' = 2
  /\ made' = "GeometryCollection"
  /\ UNCHANGED dumpRef
  /\ UNCHANGED <<rtVars, lsVars, polyVars, mpVars, ptVars, intVars, ctVars, gjVars, ecVars, accVars, blVars>>

\* What the caller can write to an element of a slice of the variant.
SliceValues == IF made = "MultiPolygon" THEN SlicePolygons ELSE TypedPoints

\* The caller writes to an element of the slice that was handed in.
DoCallerWrite ==
  /\ made # "none"
  /\ \E i \in 1..Len(arrays[callerRef]), v \in SliceValues :
       arrays' = [arrays EXCEPT ![callerRef][i] = v]
  /\ UNCHANGED <<callerRef, geomRef, dumpRef, made, reported>>
  /\ UNCHANGED <<rtVars, lsVars, polyVars, mpVars, ptVars, intVars, ctVars, gjVars, ecVars, accVars, blVars>>

\* Dump of a multiPoint (make and copy) and of a geometryCollection of
\* Points (appended to a nil slice): a new slice with the children.
DoDump ==
  /\ made \in {"MultiPoint", "GeometryCollection"}
  /\ dumpRef = 0
  /\ arrays' = Append(arrays, arrays[geomRef])
  /\ dumpRef' = Len(arrays) + 1
  /\ UNCHANGED <<callerRef, geomRef, made, reported>>
  /\ UNCHANGED <<rtVars, lsVars, polyVars, mpVars, ptVars, intVars, ctVars, gjVars, ecVars, accVars, blVars>>

\* The caller writes to an element of the slice Dump returned.
DoDumpWrite ==
  /\ dumpRef # 0
  /\ \E i \in 1..Len(arrays[dumpRef]), v \in SliceValues :
       arrays' = [arrays EXCEPT ![dumpRef][i] = v]
  /\ UNCHANGED <<callerRef, geomRef, dumpRef, made, reported>>
  /\ UNCHANGED <<rtVars, lsVars, polyVars, mpVars, ptVars, intVars, ctVars, gjVars, ecVars, accVars, blVars>>

IMNext ==
  \/ DoNewMultiPointOfSlice
  \/ DoNewMultiPolygonOfSlice
  \/ DoNewGeometryCollectionOfSlice
  \/ DoCallerWrite
  \/ DoDump
  \/ DoDumpWrite

InitSlices == IMInit /\ RTIdle /\ LSIdle /\ PolyIdle /\ MPIdle /\ PtIdle /\ IntIdle /\ CTIdle /\ GJIdle /\ ECIdle /\ AccIdle /\ BLIdle

SpecSlices == InitSlices /\ [][IMNext]_vars

(***************************************************************************)
(* GeoJSON as a state machine: a valid Geometry is written and what was    *)
(* written is read, or an object from elsewhere is received and read.      *)
(***************************************************************************)
\* How many lists a list of a received object holds at most.
MaxLists == 2

\* The valid geometries that are written: those Intersects is called on,
\* but for the Polygon without rings, and a collection of a MultiPoint.
WrittenGeometries ==
  (Geometries \ {PolygonOf(<<>>, <<>>)})
    \cup {NewGeometryCollection(<<NewMultiPoint(<<newUncheckedPoint(NewXY(1, 2)),
                                                  NewEmptyPoint>>)>>)}

\* Lists of float64 values: of no to five values, with NaN, with +Inf.
Tuples ==
  { <<>>, <<1>>, <<1, 2>>, <<3, 0>>, <<1, 2, 3>>, <<1, 2, 3, 4>>,
    <<1, 2, 3, 4, 5>>, <<NaN, 2>>, <<1, Inf>>, <<1, 2, NaN>> }

\* Lists of such lists, and two rings.
TupleLists ==
  BoundedSeq(Tuples, MaxLists)
    \cup {appendGeoJSONSequence(UnitSquare(1, 1)), appendGeoJSONSequence(LowerLeft(3, 3))}

\* The types of the objects with coordinates, and types that are none.
CoordinateTypes ==
  [Point |-> Tuples,
   LineString |-> TupleLists,
   MultiPoint |-> TupleLists,
   Polygon |-> BoundedSeq(TupleLists, 1) \cup
                 {<<appendGeoJSONSequence(UnitSquare(1, 1)), <<<<1, 2>>, <<1>>>>>>},
   MultiLineString |-> BoundedSeq(TupleLists, 1),
   MultiPolygon |-> { <<p>> : p \in BoundedSeq(TupleLists, 1) },
   Circle |-> {<<1, 2>>}]

ObjectsWithCoordinates ==
  UNION { { [type |-> t, coordinates |-> c] : c \in CoordinateTypes[t] }
          : t \in DOMAIN CoordinateTypes }
    \cup { [type |-> "", coordinates |-> <<1, 2>>] }

\* The members of received collections: good ones and bad ones.
ReceivedMembers ==
  { [type |-> "Point", coordinates |-> <<1, 2>>],
    [type |-> "Point", coordinates |-> <<1>>],
    [type |-> "LineString", coordinates |-> <<<<1, 2>>, <<NaN, 2>>>>],
    [type |-> ""],
    [type |-> "GeometryCollection", geometries |-> <<>>],
    [type |-> "GeometryCollection",
     geometries |-> <<[type |-> "MultiPoint", coordinates |-> <<<<1, 2, 3, 4, 5>>>>]>>] }

ReceivedObjects ==
  ObjectsWithCoordinates
    \cup { [type |-> "GeometryCollection", geometries |-> s]
           : s \in BoundedSeq(ReceivedMembers, MaxLists) }

GJInit ==
  /\ gjGeom = NilGeometry
  /\ doc = [type |-> ""]
  /\ parsed = [geom |-> NilGeometry, err |-> "nil"]
  /\ gjStage = "start"

DoMarshalJSON ==
  /\ gjStage = "start"
  /\ \E g \in WrittenGeometries :
       /\ gjGeom' = g
       /\ doc' = MarshalJSON(g)
  /\ gjStage' = "written"
  /\ UNCHANGED parsed
  /\ UNCHANGED <<rtVars, lsVars, polyVars, mpVars, ptVars, intVars, ctVars, imVars, ecVars, accVars, blVars>>

\* An object that no MarshalJSON of this model wrote comes in.
DoReceive ==
  /\ gjStage = "start"
  /\ doc' \in ReceivedObjects
  /\ gjStage' = "received"
  /\ UNCHANGED <<gjGeom, parsed>>
  /\ UNCHANGED <<rtVars, lsVars, polyVars, mpVars, ptVars, intVars, ctVars, imVars, ecVars, accVars, blVars>>

DoUnmarshalGeoJSON ==
  /\ gjStage \in {"written", "received"}
  /\ parsed' = UnmarshalGeoJSON(doc)
  /\ gjStage' = IF gjStage = "written" THEN "roundTrip" ELSE "read"
  /\ UNCHANGED <<gjGeom, doc>>
  /\ UNCHANGED <<rtVars, lsVars, polyVars, mpVars, ptVars, intVars, ctVars, imVars, ecVars, accVars, blVars>>

GJNext == DoMarshalJSON \/ DoReceive \/ DoUnmarshalGeoJSON

InitGeoJSON == GJInit /\ RTIdle /\ LSIdle /\ PolyIdle /\ MPIdle /\ PtIdle /\ IntIdle /\ CTIdle /\ IMIdle /\ ECIdle /\ AccIdle /\ BLIdle

SpecGeoJSON == InitGeoJSON /\ [][GJNext]_vars

(***************************************************************************)
(* Constructors called with a list: of points, of rings, of children; the  *)
(* list may have no element.                                               *)
(***************************************************************************)
\* The lists a constructor of the variant is called with.
ListsOf ==
  [LineString |-> BoundedSeq(CtorPoints, MaxLists),
   Polygon |-> BoundedSeq({UnitSquare(1, 1), Rect(3, 3), LowerLeft(0, 0),
                           <<NewXY(0, 0), NewXY(1, 1)>>}, MaxLists),
   MultiPoint |-> BoundedSeq(TypedPoints, MaxChildren),
   MultiLineString |-> BoundedSeq(SomeLineStrings, MaxLists),
   MultiPolygon |-> BoundedSeq(PolygonCatalog, MaxPolys),
   GeometryCollection |-> BoundedSeq(TypedPoints \cup {ZeroMultiPoint}, MaxChildren)]

\* What a caller sees of a constructed geometry.
outcome(e, n, isEmpty, ctype) ==
  [err |-> e, children |-> n, empty |-> isEmpty, ctype |-> ctype]

lineStringOutcome(r) == outcome(r.err, Len(r.ls.seq), IsEmpty(r.ls), DimXY)

polygonOutcome(r) == outcome(r.err, Len(r.poly.holes), PolygonIsEmpty(r.poly), DimXY)

multiPolygonOutcome(r) ==
  outcome(r.err, Len(r.mp.polys), Len(r.mp.polys) = 0, DimXY)

\* The constructor of the variant is called with the list: NewLineString,
\* NewPolygonC, NewMultiPoint, NewMultiLineString, NewMultiPolygon,
\* NewGeometryCollection.  The sequences, rings and Polygons are XY.
construct(kind, list, ctorOpts) ==
  CASE kind = "LineString" -> lineStringOutcome(NewLineString(list, ctorOpts))
    [] kind = "Polygon" -> polygonOutcome(NewPolygonC(list))
    [] kind = "MultiPoint" ->
         LET m == NewMultiPointCT(list)
         IN  outcome("nil", Len(m.points), GeometryIsEmpty(m), m.ctype)
    [] kind = "MultiLineString" ->
         LET m == NewMultiLineString(list)
         IN  outcome("nil", Len(m.lss), \A i \in 1..Len(m.lss) : IsEmpty(m.lss[i]), DimXY)
    [] kind = "MultiPolygon" -> multiPolygonOutcome(NewMultiPolygon(list, ctorOpts))
    [] kind = "GeometryCollection" ->
         LET c == NewGeometryCollectionCT(list)
         IN  outcome("nil", Len(c.geoms), GeometryIsEmpty(c), c.ctype)

ECInit ==
  /\ ecKind \in DOMAIN ListsOf
  /\ ecList \in ListsOf[ecKind]
  /\ ecOpts \in OptionSets
  /\ ECStart

DoConstruct ==
  /\ ecDone = "input"
  /\ ecOut' = construct(ecKind, ecList, ecOpts)
  /\ ecDone' = "new"
  /\ UNCHANGED <<ecKind, ecList, ecOpts>>
  /\ UNCHANGED <<rtVars, lsVars, polyVars, mpVars, ptVars, intVars, ctVars, imVars, gjVars, accVars, blVars>>

ECNext == DoConstruct

InitEmptyLists == ECInit /\ RTIdle /\ LSIdle /\ PolyIdle /\ MPIdle /\ PtIdle /\ IntIdle /\ CTIdle /\ IMIdle /\ GJIdle /\ AccIdle /\ BLIdle

SpecEmptyLists == InitEmptyLists /\ [][ECNext]_vars

(***************************************************************************)
(* Methods of a geometry as a state machine: a LineString, a MultiPoint or *)
(* a GeometryCollection is drawn and a method is called on it.             *)
(***************************************************************************)
\* How many points a LineString or a MultiPoint a method is called on has
\* at most.
MaxSubjectPts == 3

SubjectGrid == { NewXY(x, y) : x \in 0..2, y \in 0..2 }

\* The step from one point to the next runs along an axis.
alongAnAxis(seq) ==
  \A i \in 1..(Len(seq) - 1) : seq[i].X = seq[i + 1].X \/ seq[i].Y = seq[i + 1].Y

\* The valid LineStrings whose lines run along the axes.
SubjectLineStrings ==
  { LineStringOf(seq) : seq \in
      { q \in BoundedSeq(SubjectGrid, MaxSubjectPts) :
          alongAnAxis(q) /\ NewLineString(q, NoOptions).err = "nil" } }

SubjectMultiPoints ==
  { NewMultiPoint(pts) : pts \in
      BoundedSeq({NewEmptyPoint, newUncheckedPoint(NewXY(0, 0)),
                  newUncheckedPoint(NewXY(2, 1)), newUncheckedPoint(NewXY(1, 2))},
                 MaxSubjectPts) }

\* The members of the collections: empty ones, and ones of no and of one
\* dimension.
SubjectMembers ==
  { NewEmptyPoint, newUncheckedPoint(NewXY(1, 1)),
    LineStringOf(<<>>), LineStringOf(<<NewXY(0, 0), NewXY(2, 0), NewXY(2, 2)>>),
    NewMultiPoint(<<NewEmptyPoint>>), NewMultiPoint(<<newUncheckedPoint(NewXY(0, 2))>>),
    NewGeometryCollection(<<>>),
    NewGeometryCollection(<<newUncheckedPoint(NewXY(2, 0)), LineStringOf(<<>>)>>) }

SubjectCollections ==
  { NewGeometryCollection(gs) : gs \in BoundedSeq(SubjectMembers, MaxMembers) }

AccInit ==
  /\ subject \in SubjectLineStrings \cup SubjectMultiPoints \cup SubjectCollections
  /\ AccStart

DoEnvelope ==
  /\ accOp = "none"
  /\ accEnv' = GeometryEnvelope(subject)
  /\ accOp' = "Envelope"
  /\ UNCHANGED <<subject, accPt>>
  /\ UNCHANGED <<rtVars, lsVars, polyVars, mpVars, ptVars, intVars, ctVars, imVars, gjVars, ecVars, blVars>>

DoPointOnSurface ==
  /\ accOp = "none"
  /\ accPt' = PointOnSurface(subject)
  /\ accOp' = "PointOnSurface"
  /\ UNCHANGED <<subject, accEnv>>
  /\ UNCHANGED <<rtVars, lsVars, polyVars, mpVars, ptVars, intVars, ctVars, imVars, gjVars, ecVars, blVars>>

AccNext == DoEnvelope \/ DoPointOnSurface

InitMethods == AccInit /\ RTIdle /\ LSIdle /\ PolyIdle /\ MPIdle /\ PtIdle /\ IntIdle /\ CTIdle /\ IMIdle /\ GJIdle /\ ECIdle /\ BLIdle

SpecMethods == InitMethods /\ [][AccNext]_vars

(***************************************************************************)
(* hasIntersectionBetweenLines as a state machine: two lists of lines are  *)
(* drawn and the function is called on them, with or without extension.    *)
(***************************************************************************)
\* The most lines of a list handed to hasIntersectionBetweenLines.
MaxLines == 2

NewLine(ax, ay, bx, by) == [ok |-> TRUE, a |-> NewXY(ax, ay), b |-> NewXY(bx, by)]

\* The lines of the lists: two that overlap along the x axis, two diagonals
\* that cross at (1, 1) and end on the x axis, and a short diagonal that
\* meets one of them between grid points and runs beside the other.
LineChoices ==
  { NewLine(0, 0, 2, 0), NewLine(1, 0, 3, 0), NewLine(0, 0, 2, 2),
    NewLine(2, 0, 0, 2), NewLine(0, 1, 1, 2) }

\* The lines the tree is searched with: one along the x axis, a long and
\* a short diagonal.
ProbeChoices == { NewLine(0, 0, 2, 0), NewLine(2, 0, 0, 2), NewLine(0, 1, 1, 2) }

BLInit ==
  /\ treeLines \in BoundedSeq(LineChoices, MaxLines)
  /\ probeLines \in BoundedSeq(ProbeChoices, MaxLines)
  /\ BLStart

DoHasIntersectionBetweenLines ==
  /\ blDone = "input"
  /\ \E populateExtension \in BOOLEAN :
       /\ populate' = populateExtension
       /\ blOut' = hasIntersectionBetweenLinesExt(treeLines, probeLines,
                                                  populateExtension, nodePool)
  /\ blDone' = "called"
  /\ UNCHANGED <<treeLines, probeLines>>
  /\ UNCHANGED <<rtVars, lsVars, polyVars, mpVars, ptVars, intVars, ctVars, imVars, gjVars, ecVars, accVars>>

BLNext == DoHasIntersectionBetweenLines

InitBetweenLines == BLInit /\ RTIdle /\ LSIdle /\ PolyIdle /\ MPIdle /\ PtIdle /\ IntIdle /\ CTIdle /\ IMIdle /\ GJIdle /\ ECIdle /\ AccIdle

SpecBetweenLines == InitBetweenLines /\ [][BLNext]_vars

(***************************************************************************)
(* What the claims speak of, stated without the library's algorithms.      *)
(***************************************************************************)
\* Twice the signed area of the triangle a, b, c.
orient(a, b, c) == cross(b.X - a.X, b.Y - a.Y, c.X - a.X, c.Y - a.Y)

\* The grid point p lies on the segment from a to b.
onSegment(p, a, b) ==
  /\ orient(a, b, p) = 0
  /\ Min2(a.X, b.X) <= p.X /\ p.X <= Max2(a.X, b.X)
  /\ Min2(a.Y, b.Y) <= p.Y /\ p.Y <= Max2(a.Y, b.Y)

\* The segments a-b and c-d share a point.
segmentsMeet(a, b, c, d) ==
  \/ /\ (orient(a, b, c) > 0 /\ orient(a, b, d) < 0)
        \/ (orient(a, b, c) < 0 /\ orient(a, b, d) > 0)
     /\ (orient(c, d, a) > 0 /\ orient(c, d, b) < 0)
        \/ (orient(c, d, a) < 0 /\ orient(c, d, b) > 0)
  \/ onSegment(c, a, b) \/ onSegment(d, a, b)
  \/ onSegment(a, c, d) \/ onSegment(b, c, d)

\* The segments a-b and c-d (neither a single point) share more than one
\* point: they lie on one straight line and overlap along a positive length.
segmentsOverlap(a, b, c, d) ==
  /\ orient(a, b, c) = 0
  /\ orient(a, b, d) = 0
  /\ IF a.X # b.X
       THEN Max2(Min2(a.X, b.X), Min2(c.X, d.X)) < Min2(Max2(a.X, b.X), Max2(c.X, d.X))
       ELSE Max2(Min2(a.Y, b.Y), Min2(c.Y, d.Y)) < Min2(Max2(a.Y, b.Y), Max2(c.Y, d.Y))

\* The positions k of a sequence whose point differs from the next one: the
\* segments of the curve that are more than a point.
properSegments(seq) == { k \in 1..(Len(seq) - 1) : seq[k] # seq[k + 1] }

\* The curve through the points passes through some point of the plane
\* twice, not counting that it may end where it started.
passesTwice(seq) ==
  LET S == properSegments(seq)
      closed == Len(seq) > 0 /\ seq[1] = seq[Len(seq)]
  IN  \E k \in S, m \in S :
        /\ k < m
        /\ LET a == seq[k]
               b == seq[k + 1]
               c == seq[m]
               d == seq[m + 1]
               consecutive == \A n \in S : ~(k < n /\ n < m)
               ends == closed /\ (\A n \in S : k <= n /\ n <= m)
           IN  \/ segmentsOverlap(a, b, c, d)
               \/ segmentsMeet(a, b, c, d) /\ ~consecutive /\ ~ends

\* The boxes share a point of the grid (boxes have whole-number corners).
boxesShareAPoint(a, b) ==
  \E x \in a.MinX..a.MaxX, y \in a.MinY..a.MaxY :
    /\ b.MinX <= x /\ x <= b.MaxX
    /\ b.MinY <= y /\ y <= b.MaxY

RECURSIVE leafEntries(_)
\* The (box, recordID) pairs in the leaves below a node, left to right.
leafEntries(n) ==
  LET RECURSIVE from(_)
      from(i) ==
        IF i > n.numEntries THEN <<>>
        ELSE (IF n.isLeaf
                THEN <<[Box |-> n.entries[i].box, RecordID |-> n.entries[i].recordID]>>
                ELSE leafEntries(n.entries[i].child)) \o from(i + 1)
  IN  from(1)

\* s is t in another order.
isPermutation(s, t) ==
  /\ Len(s) = Len(t)
  /\ \A e \in { s[i] : i \in 1..Len(s) } \cup { t[i] : i \in 1..Len(t) } :
       Cardinality({ i \in 1..Len(s) : s[i] = e })
         = Cardinality({ i \in 1..Len(t) : t[i] = e })

\* The points the segments a-b and c-d have in common when that is a single
\* point, and two of them when they have more: the crossing point by
\* Cramer's rule, or the end points of one that lie on the other.
meetingPoints(a, b, c, d) ==
  LET a1 == b.Y - a.Y
      b1 == a.X - b.X
      c1 == a1 * a.X + b1 * a.Y
      a2 == d.Y - c.Y
      b2 == c.X - d.X
      c2 == a2 * c.X + b2 * c.Y
      det == a1 * b2 - a2 * b1
  IN  IF ~segmentsMeet(a, b, c, d) THEN {}
      ELSE IF det # 0 THEN { Rat(c1 * b2 - c2 * b1, a1 * c2 - a2 * c1, det) }
      ELSE { p \in {a, b} : onSegment(p, c, d) } \cup { p \in {c, d} : onSegment(p, a, b) }

\* Points two rings have in common: all of them when there are finitely
\* many, at least two when there are more.
commonPoints(r1, r2) ==
  UNION { meetingPoints(r1[k], r1[k + 1], r2[m], r2[m + 1])
          : k \in properSegments(r1), m \in properSegments(r2) }

\* The rings of the call of NewPolygon, holes first.
ringsOfCall == Append(holeRings, outerRing)

\* Some two rings of the call have more than one point in common.
someRingsShareTwoPoints ==
  \E i, j \in 1..Len(ringsOfCall) :
    i < j /\ Cardinality(commonPoints(ringsOfCall[i], ringsOfCall[j])) > 1

\* The point p (which may have fractions for ordinates) lies on the segment
\* from a to b.
onSegmentRat(p, a, b) ==
  /\ (b.X - a.X) * (p.Y - a.Y * p.D) = (b.Y - a.Y) * (p.X - a.X * p.D)
  /\ Min2(a.X, b.X) * p.D <= p.X /\ p.X <= Max2(a.X, b.X) * p.D
  /\ Min2(a.Y, b.Y) * p.D <= p.Y /\ p.Y <= Max2(a.Y, b.Y) * p.D

\* The ray from p towards +Y crosses the segment a-b, counting of the end
\* points only the one with the larger X.
crossesUpwardRay(p, a, b) ==
  LET lo == IF a.X < b.X THEN a ELSE b
      hi == IF a.X < b.X THEN b ELSE a
  IN  /\ a.X # b.X
      /\ lo.X * p.D < p.X /\ p.X <= hi.X * p.D
      /\ (p.Y - lo.Y * p.D) * (hi.X - lo.X) < (hi.Y - lo.Y) * (p.X - lo.X * p.D)

\* p lies outside the closed region a ring bounds.
outsideRegion(p, ring) ==
  /\ \A k \in properSegments(ring) : ~onSegmentRat(p, ring[k], ring[k + 1])
  /\ Cardinality({ k \in properSegments(ring) :
                     crossesUpwardRay(p, ring[k], ring[k + 1]) }) % 2 = 0

\* Points along a ring: on each segment the end points and the points at
\* each quarter of the way.
pointsAlong(ring) ==
  { Rat(4 * ring[k].X + q * (ring[k + 1].X - ring[k].X),
        4 * ring[k].Y + q * (ring[k + 1].Y - ring[k].Y), 4)
    : k \in properSegments(ring), q \in 0..4 }

\* The four quarters the two diagonals cut the unit cell at (x, y) into;
\* every ring of the inputs runs along cell sides and cell diagonals.
Quarters == { <<x, y, s>> : x \in 0..3, y \in 0..3, s \in {"N", "E", "S", "W"} }

\* A point strictly inside a quarter.
centroid(t) ==
  CASE t[3] = "S" -> Rat(6 * t[1] + 3, 6 * t[2] + 1, 6)
    [] t[3] = "N" -> Rat(6 * t[1] + 3, 6 * t[2] + 5, 6)
    [] t[3] = "W" -> Rat(6 * t[1] + 1, 6 * t[2] + 3, 6)
    [] t[3] = "E" -> Rat(6 * t[1] + 5, 6 * t[2] + 3, 6)

\* The quarters that make up the interior of the rings of the call: inside
\* the outer ring and inside no hole.
interiorQuarters ==
  { t \in Quarters :
      /\ ~outsideRegion(centroid(t), outerRing)
      /\ \A h \in 1..Len(holeRings) : outsideRegion(centroid(t), holeRings[h]) }

\* Two quarters have a side in common.
adjacentQuarters(t, u) ==
  \/ /\ t[1] = u[1] /\ t[2] = u[2] /\ t[3] # u[3]
     /\ {t[3], u[3]} \notin {{"N", "S"}, {"E", "W"}}
  \/ t[3] = "E" /\ u[3] = "W" /\ u[1] = t[1] + 1 /\ u[2] = t[2]
  \/ t[3] = "W" /\ u[3] = "E" /\ t[1] = u[1] + 1 /\ u[2] = t[2]
  \/ t[3] = "N" /\ u[3] = "S" /\ u[2] = t[2] + 1 /\ u[1] = t[1]
  \/ t[3] = "S" /\ u[3] = "N" /\ t[2] = u[2] + 1 /\ u[1] = t[1]

RECURSIVE spread(_, _)
\* The quarters of Q one gets to from those of S through common sides.
spread(S, Q) ==
  LET next == S \cup { u \in Q : \E t \in S : adjacentQuarters(t, u) }
  IN  IF next = S THEN S ELSE spread(next, Q)

\* The interior of the rings of the call is connected: meeting in a corner
\* only does not connect two quarters.
interiorConnected ==
  \/ interiorQuarters = {}
  \/ spread({CHOOSE t \in interiorQuarters : TRUE}, interiorQuarters) = interiorQuarters

\* The point p lies on a ring.
onRing(p, ring) ==
  \E k \in properSegments(ring) : onSegmentRat(p, ring[k], ring[k + 1])

\* The graph of section 4.4: an edge from each point two rings of the call
\* have in common to each ring through it.
touchEdges ==
  LET touchPoints ==
        UNION { IF i < j THEN commonPoints(ringsOfCall[i], ringsOfCall[j]) ELSE {}
                : i \in 1..Len(ringsOfCall), j \in 2..Len(ringsOfCall) }
  IN  { e \in touchPoints \X (1..Len(ringsOfCall)) : onRing(e[1], ringsOfCall[e[2]]) }

RECURSIVE prune(_)
\* What is left of a set of point-ring edges after taking away, again and
\* again, each edge with an end no other edge has: nothing exactly when
\* the graph has no cycle.
prune(E) ==
  LET kept == { e \in E : /\ \E f \in E \ {e} : f[1] = e[1]
                          /\ \E f \in E \ {e} : f[2] = e[2] }
  IN  IF kept = E THEN E ELSE prune(kept)

\* The rings of the call pass the checks NewPolygon makes before the one of
\* connectedness.
earlierChecksPass ==
  /\ ~someRingsShareTwoPoints
  /\ \A h \in 1..Len(holeRings) : \A k \in 1..Len(holeRings[h]) :
       ~outsideRegion(holeRings[h][k], outerRing)

\* A control point of a hole of the call lies strictly inside another hole.
someHoleInsideAHole ==
  \E h, g \in 1..Len(holeRings) :
    /\ h # g
    /\ \E k \in 1..Len(holeRings[h]) :
         /\ ~outsideRegion(holeRings[h][k], holeRings[g])
         /\ ~onRing(holeRings[h][k], holeRings[g])

\* The X-intervals of the Polygons of the call, and what the sweep of the
\* call went through.
intervalsOfCall == [i \in 1..Len(polyList) |-> Envelope(polyList[i])]

sweepOfCall ==
  sweep(polyList, intervalsOfCall, sortIndexes(intervalsOfCall, Len(polyList)), <<>>, {})

\* Every Polygon of the call has an outer ring, as every Polygon has that
\* the older constructor can be given.
noEmptyPolygon == \A i \in 1..Len(polyList) : polyList[i] # ZeroPolygon

\* The quarters that make up the interior of a Polygon.
quartersOf(p) ==
  { t \in Quarters :
      /\ p.outer # <<>>
      /\ ~outsideRegion(centroid(t), p.outer)
      /\ \A h \in 1..Len(p.holes) : outsideRegion(centroid(t), p.holes[h]) }

\* The interiors of two Polygons have a point in common.
interiorsShareAPoint(p, q) == quartersOf(p) \cap quartersOf(q) # {}

\* The boundaries of two Polygons have a piece of a line in common, not
\* only points.
boundariesOverlap(p, q) ==
  \E r \in 1..Len(rings(p)), s \in 1..Len(rings(q)) :
    \E k \in properSegments(rings(p)[r]), m \in properSegments(rings(q)[s]) :
      segmentsOverlap(rings(p)[r][k], rings(p)[r][k + 1],
                      rings(q)[s][m], rings(q)[s][m + 1])

RECURSIVE typesMatch(_)
\* The ctype of every container in a geometry is the ctype of each of its
\* elements.
typesMatch(g) ==
  CASE g.tag = "Point" -> TRUE
    [] g.tag = "MultiPoint" -> \A i \in 1..Len(g.points) : g.points[i].ctype = g.ctype
    [] g.tag = "GeometryCollection" ->
         \A i \in 1..Len(g.geoms) : g.geoms[i].ctype = g.ctype /\ typesMatch(g.geoms[i])

RECURSIVE holdsPointlessMultiPoint(_)
\* Some element of a geometryCollection, at any depth, is a multiPoint
\* without Points.
holdsPointlessMultiPoint(g) ==
  /\ g.tag = "GeometryCollection"
  /\ \E i \in 1..Len(g.geoms) :
       \/ g.geoms[i].tag = "MultiPoint" /\ g.geoms[i].points = <<>>
       \/ holdsPointlessMultiPoint(g.geoms[i])

\* The dimensions every geometry of a list has.
commonDimensions(gs) ==
  { d \in {"Z", "M"} : gs # <<>> /\ \A i \in 1..Len(gs) : d \in gs[i].ctype }

\* The elements of a container.
elements(g) == IF g.tag = "MultiPoint" THEN g.points ELSE g.geoms

\* The container under study has just been constructed from elements that
\* are not all of one coordinates type.
constructedFromMixedTypes ==
  /\ ctOp \in {"NewMultiPoint", "NewGeometryCollection"}
  /\ \E i, j \in 1..Len(ctParts) : ctParts[i].ctype # ctParts[j].ctype

RECURSIVE holdsEmptyPointInMultiPoint(_)
\* A MultiPoint of the geometry holds an empty Point.
holdsEmptyPointInMultiPoint(g) ==
  CASE g.tag = "MultiPoint" -> \E i \in 1..Len(g.pts) : g.pts[i].empty
    [] g.tag = "GeometryCollection" ->
         \E i \in 1..Len(g.geoms) : holdsEmptyPointInMultiPoint(g.geoms[i])
    [] OTHER -> FALSE

\* How deep the lists of numbers lie in the coordinates of a type.
depthOfType ==
  [Point |-> 0, LineString |-> 1, MultiPoint |-> 1, Polygon |-> 2,
   MultiLineString |-> 2, MultiPolygon |-> 3]

RECURSIVE tuplesAt(_, _)
\* The lists of numbers that lie at the depth in the nested lists.
tuplesAt(c, depth) ==
  IF depth = 0 THEN {c}
  ELSE UNION { tuplesAt(c[i], depth - 1) : i \in 1..Len(c) }

\* A list of numbers that is no coordinate: too short, too long, or with a
\* number that is NaN or infinite.
noCoordinate(t) ==
  \/ Len(t) \notin {2, 3, 4}
  \/ \E i \in 1..Len(t) : t[i] \in {NaN, Inf}

RECURSIVE malformed(_)
\* The object has no type or one that is not known, or a list of numbers
\* in it, at any depth, is no coordinate.  The empty coordinates of a Point
\* are the empty Point, not a list of numbers.
malformed(o) ==
  IF o.type = "GeometryCollection"
    THEN \E i \in 1..Len(o.geometries) : malformed(o.geometries[i])
  ELSE IF o.type \notin DOMAIN depthOfType THEN TRUE
  ELSE IF o.type = "Point" /\ o.coordinates = <<>> THEN FALSE
  ELSE \E t \in tuplesAt(o.coordinates, depthOfType[o.type]) : noCoordinate(t)

RECURSIVE controlPoints(_)
\* The XY values of the control points of a geometry.
controlPoints(g) ==
  CASE g.tag = "Point" -> IF g.empty THEN {} ELSE {g.xy}
    [] g.tag = "LineString" -> { g.seq[i] : i \in 1..Len(g.seq) }
    [] g.tag = "MultiPoint" -> { g.pts[i].xy : i \in { k \in 1..Len(g.pts) : ~g.pts[k].empty } }
    [] g.tag = "GeometryCollection" ->
         UNION { controlPoints(g.geoms[i]) : i \in 1..Len(g.geoms) }

\* The point lies in the envelope, which is not empty.
envelopeHolds(env, p) ==
  /\ ~env.empty
  /\ env.minX <= p.X /\ p.X <= env.maxX
  /\ env.minY <= p.Y /\ p.Y <= env.maxY

RECURSIVE nodesBelow(_)
\* The node and every node below it.
nodesBelow(n) ==
  {n} \cup (IF n.isLeaf THEN {}
            ELSE UNION { nodesBelow(n.entries[i].child) : i \in 1..n.numEntries })

\* The number of items in the leaves below each child of an internal node.
groupSizes(n) == [i \in 1..n.numEntries |-> Len(leafEntries(n.entries[i].child))]

\* The sizes differ by at most d.
sizesWithin(sizes, d) ==
  \A i, j \in DOMAIN sizes : sizes[i] - sizes[j] <= d

\* The number of groups an internal node over that many items must have,
\* by the fan-out rule: two below 6, three for 6 and 7, four from 8 on.
groupsFor(count) == IF count < 6 THEN 2 ELSE IF count < 8 THEN 3 ELSE 4

RECURSIVE leavesOnlyAtLevel(_, _)
\* The nodes `levels` levels above the bottom are internal nodes, the nodes
\* at the bottom are leaves.
leavesOnlyAtLevel(n, levels) ==
  IF levels = 1 THEN n.isLeaf
  ELSE /\ ~n.isLeaf
       /\ \A i \in 1..n.numEntries : leavesOnlyAtLevel(n.entries[i].child, levels - 1)

RECURSIVE power(_, _)
power(b, e) == IF e = 0 THEN 1 ELSE b * power(b, e - 1)

\* The least L >= 1 with 4^L >= n.
leastLevels(n) ==
  CHOOSE L \in 1..(n + 1) :
    /\ power(4, L) >= n
    /\ \A l \in 1..(L - 1) : power(4, l) < n

RECURSIVE leafDepths(_, _)
\* The depths of the leaves below a node that is at depth d.
leafDepths(n, d) ==
  IF n.isLeaf THEN {d}
  ELSE UNION { leafDepths(n.entries[i].child, d + 1) : i \in 1..n.numEntries }

\* The least box that holds the boxes of the entries of a node.
boxOfEntries(n) ==
  LET boxes == { n.entries[i].box : i \in 1..n.numEntries }
  IN  [MinX |-> CHOOSE v \in { b.MinX : b \in boxes } : \A b \in boxes : v <= b.MinX,
       MinY |-> CHOOSE v \in { b.MinY : b \in boxes } : \A b \in boxes : v <= b.MinY,
       MaxX |-> CHOOSE v \in { b.MaxX : b \in boxes } : \A b \in boxes : v >= b.MaxX,
       MaxY |-> CHOOSE v \in { b.MaxY : b \in boxes } : \A b \in boxes : v >= b.MaxY]

\* The pairs (i, j) of a line of the tree and a probing line that share a
\* point, by orientation tests.
meetingPairs(lns1, lns2) ==
  { pr \in (1..Len(lns1)) \X (1..Len(lns2)) :
      segmentsMeet(lns1[pr[1]].a, lns1[pr[1]].b, lns2[pr[2]].a, lns2[pr[2]].b) }

\* The points of the half-unit grid, as pairs of doubled ordinates.
HalfGrid == (0..6) \X (0..6)

\* The half-grid point h lies on the line.
onHalfGrid(h, ln) ==
  onSegment(NewXY(h[1], h[2]), NewXY(2 * ln.a.X, 2 * ln.a.Y), NewXY(2 * ln.b.X, 2 * ln.b.Y))

\* The half-grid points that a line of one list and a line of the other
\* share.
sharedPoints(lns1, lns2) ==
  { h \in HalfGrid : \E i \in 1..Len(lns1), j \in 1..Len(lns2) :
      onHalfGrid(h, lns1[i]) /\ onHalfGrid(h, lns2[j]) }

\* The returned singlePoint is the half-grid point h.
isPoint(singlePoint, h) ==
  /\ 2 * singlePoint[1].n = h[1] * singlePoint[1].d
  /\ 2 * singlePoint[2].n = h[2] * singlePoint[2].d

RECURSIVE hasNoPoint(_)
\* The geometry is empty: it has no point, whatever its variant.
hasNoPoint(g) ==
  CASE g.tag = "Point" -> g.empty
    [] g.tag = "LineString" -> g.seq = <<>>
    [] g.tag = "Polygon" -> g.outer = <<>>
    [] g.tag = "MultiPoint" -> \A i \in 1..Len(g.pts) : g.pts[i].empty
    [] g.tag = "MultiLineString" -> \A i \in 1..Len(g.lss) : g.lss[i].seq = <<>>
    [] g.tag = "MultiPolygon" -> \A i \in 1..Len(g.polys) : g.polys[i].outer = <<>>
    [] g.tag = "GeometryCollection" -> \A i \in 1..Len(g.geoms) : hasNoPoint(g.geoms[i])

(***************************************************************************)
(* The claims.                                                             *)
(***************************************************************************)

\* C1: for every LineString of grid points, IsSimple returns true exactly
\* when the curve does not pass through a point of the plane twice (ending
\* where it started does not count); overlapping segments and touching
\* segments that are not neighbours make it return false, as for
\* LINESTRING(0 0, 2 2, 2 0, 0 2).
C1_IsSimpleIffCurveSimple ==
  lsDone = "simple" =>
    /\ simple \in {"true", "false"}
    /\ (simple = "true") <=> ~passesTwice(ls.seq)
    /\ ls.seq = CrossingLine => simple = "false"

\* C1 witness: IsSimple has answered false for the crossing line string of
\* the claim.
C1_Witness == lsDone = "simple" /\ ls.seq = CrossingLine /\ simple = "false"

\* C2: after BulkLoad the leaves of the tree hold every item exactly once,
\* and a range search visits exactly the records whose box meets the query
\* box, each once.
C2_SearchVisitsExactlyTheIntersecting ==
  /\ tree.hasRoot => isPermutation(leafEntries(tree.root), rtItems)
  /\ ~tree.hasRoot => rtItems = <<>>
  /\ rtDone = "search" =>
       /\ \A k \in 1..Len(rtItems) :
            boxesShareAPoint(rtItems[k].Box, query) =>
              Cardinality({ v \in 1..Len(visited) : visited[v] = rtItems[k].RecordID }) = 1
       /\ \A v \in 1..Len(visited) :
            \E k \in 1..Len(rtItems) :
              /\ rtItems[k].RecordID = visited[v]
              /\ boxesShareAPoint(rtItems[k].Box, query)

\* C2 witness: a search of a tree of 8 items (split four ways) has visited
\* some of the items and not others.
C2_Witness ==
  rtDone = "search" /\ Len(rtItems) >= 8 /\ Len(visited) > 0 /\ Len(visited) < Len(rtItems)

RECURSIVE leaves(_)
\* The geometries that are no collection in a geometry: itself, or the
\* members of the collection, of its member collections, and so on.
leaves(g) ==
  IF g.tag = "GeometryCollection"
    THEN UNION { leaves(g.geoms[i]) : i \in 1..Len(g.geoms) }
    ELSE {g}

\* The two geometries of the call, the one of lower rank first.
lowerRanked == IF rank(ga) > rank(gb) THEN gb ELSE ga

higherRanked == IF rank(ga) > rank(gb) THEN ga ELSE gb

\* C3: Intersects(a, b) equals Intersects(b, a) for geometries of any of the
\* seven variants, empty ones and nested collections among them.
C3_IntersectsIsSymmetric ==
  (hit # "none" /\ hitSwapped # "none") => hit = hitSwapped

\* C3 witness: a Polygon and a Polygon inside it, whose boundaries do not
\* meet, were found to intersect in both orders.
C3_Witness ==
  /\ ga = PolygonOf(Rect(3, 3), <<>>)
  /\ gb = PolygonOf(UnitSquare(1, 1), <<>>)
  /\ hit = "true" /\ hitSwapped = "true"

\* C4: for every ordered pair of variants hasIntersection reaches a case of
\* its switch after ordering the pair by rank and never the panic for
\* unhandled geometry types; a GeometryCollection is handled by going
\* through its members, which comes to an end: the call returns true
\* exactly when a member that is no collection, at whatever depth,
\* intersects one of the other geometry.
C4_DispatchIsTotal ==
  /\ hit # "panic"
  /\ hitSwapped # "panic"
  /\ higherRanked.tag # "GeometryCollection"
       => handlerFor(lowerRanked, higherRanked) # "unhandled"
  /\ hit # "none" =>
       (hit = "true" <=> \E x \in leaves(ga), y \in leaves(gb) :
                           hasIntersection(x, y) = "true")

\* C4 witness: a collection nested in a collection was called with a
\* MultiPoint, and the call returned.
C4_Witness ==
  /\ ga \in NestedCollections
  /\ ga.geoms[1].geoms # <<>>
  /\ gb.tag = "MultiPoint"
  /\ hit \in {"true", "false"}

\* A sequence NewLineString is meant to accept: no point at all, or points
\* without NaN that take at least two XY values.
validSequence(seq) ==
  \/ seq = <<>>
  \/ /\ \A i \in 1..Len(seq) : ~hasNaN(seq[i])
     /\ \E i, j \in 1..Len(seq) : seq[i] # seq[j]

\* C5: without options NewLineString returns a validation error for every
\* non-empty sequence whose points all have one XY value (a single point
\* too), and a LineString it returns without error is empty or has at least
\* two points with at least two XY values.
C5_OneDistinctXYRejected ==
  (lsDone = "new" /\ opts = NoOptions) =>
    /\ (input # <<>> /\ \A i \in 1..Len(input) : input[i] = input[1])
         => err = "validationError"
    /\ err = "nil" =>
         \/ ls.seq = <<>>
         \/ /\ Len(ls.seq) >= 2
            /\ \E i, j \in 1..Len(ls.seq) : ~hasNaN(ls.seq[i]) /\ ~hasNaN(ls.seq[j])
                                            /\ ls.seq[i] # ls.seq[j]

\* C5 witness: LINESTRING(0 0, 0 0) has been rejected.
C5_Witness ==
  /\ lsDone = "new" /\ opts = NoOptions
  /\ input = <<NewXY(0, 0), NewXY(0, 0)>>
  /\ err = "validationError"

\* C7: with omitInvalid (and without skipValidations) NewLineString returns
\* no error: the empty LineString for a sequence that fails validation, the
\* LineString over the sequence itself for one that passes.
C7_OmitInvalidGivesEmpty ==
  (lsDone = "new" /\ opts = newOptionSet(FALSE, TRUE)) =>
    /\ err = "nil"
    /\ ls.seq = (IF validSequence(input) THEN input ELSE <<>>)

\* C7 witness: a sequence of two different points, one with a NaN ordinate,
\* has given the empty LineString and no error.
C7_Witness ==
  /\ lsDone = "new" /\ opts = newOptionSet(FALSE, TRUE)
  /\ input = <<NewXY(0, 0), NewXY(1, NaN)>>
  /\ ls = EmptyLineString /\ err = "nil"

\* C6 (as the specification states it): a constructor called without
\* options with a coordinate whose X or Y is NaN returns a validation error
\* and no geometry.  NewLineString does; NewPointC returns a Point.
C6_NaNRejectedByEveryConstructor ==
  opts = NoOptions =>
    /\ (lsDone = "new" /\ \E i \in 1..Len(input) : hasNaN(input[i]))
         => (err = "validationError" /\ ls = EmptyLineString)
    /\ (ptDone = "new" /\ hasNaN(coords)) => ptErr = "validationError"

\* C8: with skipValidations NewLineString and NewMultiPolygon return no
\* error and a geometry over exactly the sequence / the list of Polygons
\* they were given, in the same order, whatever the input.
C8_SkipValidationsKeepsInput ==
  opts.skipValidations =>
    /\ lsDone = "new" => (err = "nil" /\ ls.seq = input)
    /\ mpDone = "new" => (mpErr = "nil" /\ mp.polys = polyList)

\* C8 witness: with skipValidations a LineString of a single point with NaN
\* and a MultiPolygon of a square and a triangle inside it have been built.
C8_Witness ==
  /\ opts.skipValidations
  /\ lsDone = "new" /\ input = <<NewXY(NaN, 0)>> /\ ls.seq = input
  /\ mpDone = "new" /\ mp.polys = polyList
  /\ polyList = <<[outer |-> Rect(2, 2), holes |-> <<>>],
               [outer |-> LowerLeft(0, 0), holes |-> <<>>]>>

\* C9: NewPolygon returns an error whenever two of its rings have more than
\* one point in common, and the error it has for that is returned only then.
C9_RingsMeetInOnePointAtMost ==
  polyDone = "new" =>
    /\ someRingsShareTwoPoints => polyErr # "nil"
    /\ polyErr = ErrMultiplePoints => someRingsShareTwoPoints

\* C9 witness: two holes that have exactly one point in common were
\* accepted.
C9_Witness ==
  /\ polyDone = "new" /\ polyErr = "nil"
  /\ Len(holeRings) = 2
  /\ Cardinality(commonPoints(holeRings[1], holeRings[2])) = 1

\* C10: NewPolygon returns an error whenever a control point of a hole lies
\* strictly outside the outer ring, and every hole of a Polygon it returns
\* lies within the closed region of the outer ring.
C10_HolesInsideOuterRing ==
  polyDone = "new" =>
    /\ (\E h \in 1..Len(holeRings) : \E k \in 1..Len(holeRings[h]) :
          outsideRegion(holeRings[h][k], outerRing)) => polyErr # "nil"
    /\ polyErr = "nil" =>
         \A h \in 1..Len(newPoly.holes) : \A p \in pointsAlong(newPoly.holes[h]) :
           ~outsideRegion(p, newPoly.outer)

\* C10 witness: a hole with no point in common with any other ring and a
\* control point outside the outer ring was rejected for that.
C10_Witness ==
  /\ polyDone = "new" /\ polyErr = ErrHoleOutside
  /\ ~someRingsShareTwoPoints
  /\ \E h \in 1..Len(holeRings) :
       /\ commonPoints(holeRings[h], outerRing) = {}
       /\ \E k \in 1..Len(holeRings[h]) : outsideRegion(holeRings[h][k], outerRing)

\* C11: NewPolygon returns the error of a disconnected interior exactly when
\* the rings pass its earlier checks and the graph of rings and common
\* points has a cycle; and for rings that pass the earlier checks that graph
\* has a cycle exactly when the interior is not connected.
C11_CycleIffDisconnected ==
  polyDone = "new" =>
    /\ polyErr = ErrNotConnected <=> (earlierChecksPass /\ prune(touchEdges) # {})
    /\ earlierChecksPass => (prune(touchEdges) # {} <=> ~interiorConnected)

\* C11 witness: two holes and the outer ring, each two of them touching,
\* cut the interior in two and were rejected for that.
C11_Witness ==
  /\ polyDone = "new" /\ polyErr = ErrNotConnected
  /\ Len(holeRings) = 2
  /\ ~interiorConnected

\* C12: for every Polygon that NewPolygon returned and every control point
\* v of its outer ring or of a hole, Intersects(Point(v), p) is true.
C12_ControlPointsIntersect ==
  (polyDone = "new" /\ polyErr = "nil" /\ hit # "none") => hit = "true"

\* C12, for the Polygons none of whose holes lies in another hole: every
\* control point intersects.
C12_ControlPointsIntersectUnlessNested ==
  (polyDone = "new" /\ polyErr = "nil" /\ hit # "none" /\ ~someHoleInsideAHole)
    => hit = "true"

\* A control point of an accepted Polygon without a hole in a hole was
\* tested, and one of a hole was.
C12_Reached ==
  /\ polyDone = "new" /\ polyErr = "nil" /\ hit = "true"
  /\ Len(holeRings) = 2 /\ ~someHoleInsideAHole
  /\ \E k \in 1..Len(holeRings[1]) : ga.xy = holeRings[1][k]

C14_InteriorsIntersectDetected ==
  (mpDone = "new" /\ noEmptyPolygon) =>
    \A i, j \in 1..Len(polyList) :
      (i < j /\ ~boundariesOverlap(polyList[i], polyList[j])) =>
        /\ polyInteriorsIntersect(polyList[i], polyList[j])
             <=> interiorsShareAPoint(polyList[i], polyList[j])
        /\ interiorsShareAPoint(polyList[i], polyList[j]) => mpErr # "nil"

\* C14 for the pairs of which no Polygon has all its control points on the
\* boundary of the other.
C14_DetectedUnlessInscribed ==
  (mpDone = "new" /\ noEmptyPolygon) =>
    \A i, j \in 1..Len(polyList) :
      (/\ i < j /\ ~boundariesOverlap(polyList[i], polyList[j])
       /\ {polyList[i], polyList[j]} # {Diamond, [outer |-> Rect(2, 2), holes |-> <<>>]}) =>
        /\ polyInteriorsIntersect(polyList[i], polyList[j])
             <=> interiorsShareAPoint(polyList[i], polyList[j])
        /\ interiorsShareAPoint(polyList[i], polyList[j]) => mpErr # "nil"

\* C14: the overlapping pair of a square and a smaller one across its hole
\* was rejected for its interiors.
C14_Reached ==
  /\ mpDone = "new" /\ mpErr = ErrInteriors
  /\ Len(polyList) = 2
  /\ ~boundariesOverlap(polyList[1], polyList[2])
  /\ interiorsShareAPoint(polyList[1], polyList[2])

\* C15: in every multiPoint and geometryCollection that constructing,
\* ForceCoordinatesType, Force2D, TransformXY, Reverse and Boundary lead
\* to, the coordinates type of each container is the one of each of its
\* elements, empty ones too; and a container just constructed has the
\* lowest common coordinates type of what it was constructed from.
C15_ContainerTypeIsChildrensType ==
  /\ typesMatch(cur)
  /\ ctOp \in {"NewMultiPoint", "NewGeometryCollection"} =>
       cur.ctype = commonDimensions(ctParts)

\* C15, step by step: an operation on a geometry whose container types
\* match gives one whose container types match, but for TransformXY of a
\* geometryCollection that holds a multiPoint without Points.
C15_StepsKeepTypesButTransformXY ==
  [][(/\ typesMatch(cur)
      /\ ctOp' # "TransformXY" \/ ~holdsPointlessMultiPoint(cur))
       => typesMatch(cur')]_vars

\* A geometryCollection with Z values that holds a multiPoint with Z
\* values was constructed and transformed.
C15_Reached ==
  /\ ctOp = "TransformXY"
  /\ cur.tag = "GeometryCollection" /\ cur.ctype = DimXYZ
  /\ \E i \in 1..Len(cur.geoms) :
       cur.geoms[i].tag = "MultiPoint" /\ cur.geoms[i].points # <<>>
  /\ typesMatch(cur)

\* C16 as stated: of the elements a container is constructed from, of
\* mixed coordinates types, none loses a Z or M dimension it had.
C16_NoChildLosesADimension ==
  constructedFromMixedTypes =>
    \A i \in 1..Len(ctParts) : ctParts[i].ctype \subseteq elements(cur)[i].ctype

\* C16 as the code has it: the elements are brought to the lowest common
\* type by dropping the dimensions not every element has; none gets a
\* dimension it did not have, and a Point keeps its X and the values of
\* the dimensions that remain.
C16_ChildrenOnlyLoseDimensions ==
  constructedFromMixedTypes =>
    /\ Len(elements(cur)) = Len(ctParts)
    /\ \A i \in 1..Len(ctParts) :
         /\ elements(cur)[i].ctype = commonDimensions(ctParts)
         /\ elements(cur)[i].ctype \subseteq ctParts[i].ctype
         /\ ctParts[i].tag = "Point" =>
              /\ elements(cur)[i].X = ctParts[i].X
              /\ elements(cur)[i].empty = ctParts[i].empty
              /\ "Z" \in cur.ctype => elements(cur)[i].Z = ctParts[i].Z
              /\ "M" \in cur.ctype => elements(cur)[i].M = ctParts[i].M

\* C16 witness: a container was constructed from a Point with a Z value
\* and one without, and holds the first without its Z value.
C16_Witness ==
  /\ constructedFromMixedTypes
  /\ \E i \in 1..Len(ctParts) :
       /\ ctParts[i].tag = "Point" /\ ~ctParts[i].empty
       /\ "Z" \in ctParts[i].ctype /\ ctParts[i].Z # 0
       /\ "Z" \notin elements(cur)[i].ctype /\ elements(cur)[i].Z = 0

\* C17: once a constructor has returned, no write of the caller to the
\* slice that was handed in and no write to a slice that Dump returned
\* changes how many children the geometry has, their order or their values.
C17_ImmutableAfterCreation ==
  made # "none" => arrays[geomRef] = reported

\* C17 for the constructors that keep their children in a slice of their
\* own: NewMultiPoint and NewGeometryCollection.
C17_ImmutableWhereCopied ==
  made \in {"MultiPoint", "GeometryCollection"} => arrays[geomRef] = reported

\* The caller's slice and the slice of Dump were both written to after a
\* multiPoint was constructed, and the multiPoint has the children it had.
C17_Reached ==
  /\ made = "MultiPoint"
  /\ dumpRef # 0
  /\ arrays[callerRef] # reported
  /\ arrays[dumpRef] # reported
  /\ arrays[geomRef] = reported

\* C18: what UnmarshalGeoJSON reads from what MarshalJSON wrote for a valid
\* geometry is that geometry, and there is no error: the variant, the
\* children in their order and the coordinates are the same, also for an
\* empty Point and for a MultiPoint that holds empty Points.
C18_RoundTripIsIdentity ==
  gjStage = "roundTrip" => parsed.err = "nil" /\ parsed.geom = gjGeom

\* C18 for the geometries none of whose MultiPoints holds an empty Point.
C18_RoundTripButForEmptyPointsInMultiPoints ==
  gjStage = "roundTrip" /\ ~holdsEmptyPointInMultiPoint(gjGeom)
    => parsed.err = "nil" /\ parsed.geom = gjGeom

\* A MultiPoint of an empty Point and another was written and read.
C18_Reached ==
  /\ gjStage = "roundTrip"
  /\ gjGeom.tag = "MultiPoint"
  /\ Len(gjGeom.pts) = 2
  /\ holdsEmptyPointInMultiPoint(gjGeom)
  /\ parsed.err = "nil"

\* C19: UnmarshalGeoJSON returns an error and no geometry for an object
\* whose type is missing, empty or not known, or in which some list of
\* numbers has fewer than two or more than four numbers or holds a NaN or
\* an infinite number, at whatever depth the list lies.
C19_MalformedIsAnError ==
  gjStage = "read" /\ malformed(doc)
    => parsed.err # "nil" /\ parsed.geom = NilGeometry

\* A collection was read whose member holds a list of five numbers, and the
\* error of that list is the error returned.
C19_Witness ==
  /\ gjStage = "read"
  /\ doc.type = "GeometryCollection"
  /\ Len(doc.geometries) = 2
  /\ doc.geometries[1] = [type |-> "Point", coordinates |-> <<1, 2>>]
  /\ doc.geometries[2].type = "GeometryCollection"
  /\ malformed(doc)
  /\ parsed = [geom |-> NilGeometry, err |-> ErrDimension]

\* C20: a Polygon, MultiPoint, MultiLineString, MultiPolygon or
\* GeometryCollection constructed from a list without elements, and a
\* LineString constructed from a sequence without points, is constructed
\* without error, is empty, has no children and has the type XY.
C20_EmptyListGivesEmptyGeometry ==
  ecDone = "new" /\ ecList = <<>>
    => ecOut = [err |-> "nil", children |-> 0, empty |-> TRUE, ctype |-> DimXY]

\* C20 for every variant but the Polygon.
C20_EmptyListGivesEmptyButPolygon ==
  ecDone = "new" /\ ecList = <<>> /\ ecKind # "Polygon"
    => ecOut = [err |-> "nil", children |-> 0, empty |-> TRUE, ctype |-> DimXY]

\* NewMultiPolygon was called with no Polygons and with validations on.
C20_Reached ==
  /\ ecDone = "new"
  /\ ecKind = "MultiPolygon"
  /\ ecList = <<>>
  /\ ~ecOpts.skipValidations
  /\ ecOut.err = "nil"
  /\ ecOut.children = 0

\* C21: the envelope of a LineString, a MultiPoint or a GeometryCollection
\* that is empty (also one whose children are all empty) is the empty
\* envelope, and the envelope of one that is not empty holds every control
\* point of it.
C21_EnvelopeHoldsControlPoints ==
  accOp = "Envelope" =>
    /\ controlPoints(subject) = {} => accEnv.empty
    /\ \A p \in controlPoints(subject) : envelopeHolds(accEnv, p)

\* Envelope was called on a LineString whose second point of three lies
\* outside the envelope of the other two.
C21_Witness ==
  /\ accOp = "Envelope"
  /\ subject.tag = "LineString"
  /\ Len(subject.seq) = 3
  /\ subject.seq[2].X > Max2(subject.seq[1].X, subject.seq[3].X)
  /\ envelopeHolds(accEnv, subject.seq[2])

\* C22: in the tree BulkLoad builds from two or more items every node,
\* leaf or internal, has 2 to 4 entries; an internal node over fewer than
\* 6 items has two groups, over 6 or 7 items three groups of at least 2
\* each, over 8 or more items four groups whose sizes differ by at most
\* one; and no leaf holds more than 4 items.
C22_FanOutBetweenTwoAndFour ==
  (rtDone = "load" /\ Len(rtItems) >= 2) =>
    \A n \in nodesBelow(tree.root) :
      /\ n.numEntries >= 2
      /\ n.numEntries <= maxChildren
      /\ ~n.isLeaf =>
           LET sizes == groupSizes(n)
               count == Len(leafEntries(n))
           IN  /\ n.numEntries = groupsFor(count)
               /\ \A i \in DOMAIN sizes : sizes[i] >= 2
               /\ count >= 8 => sizesWithin(sizes, 1)

C22_Witness ==
  /\ rtDone = "load"
  /\ Len(rtItems) = 8
  /\ tree.root.numEntries = 4
  /\ \A i \in 1..4 : tree.root.entries[i].child.isLeaf
                     /\ tree.root.entries[i].child.numEntries = 2

\* C23: IsSimple answers false for the closed two-segment LineString
\* (0 0, 1 1, 0 0): its second segment retraces the first, so the two
\* segments overlap over a positive length.
C23_RetracedLineIsNotSimple ==
  (lsDone = "simple" /\ ls.seq = RetracedLine) => simple = "false"

C23_Witness ==
  /\ lsDone = "simple"
  /\ ls.seq = RetracedLine
  /\ IsClosed(ls)
  /\ simple = "false"

\* C23 as stated: IsSimple answers true for LINESTRING(0 0, 1 1, 0 0).
C23_RetracedLineIsSimple ==
  (lsDone = "simple" /\ ls.seq = RetracedLine) => simple = "true"

\* C24: PointOnSurface of a LineString, a MultiPoint or a
\* GeometryCollection is the empty Point exactly when the geometry is
\* empty; for a LineString or MultiPoint that is not empty the point is one
\* of the geometry's control points and intersects the geometry.
C24_PointOnSurfaceEmptyIffEmpty ==
  accOp = "PointOnSurface" =>
    /\ accPt.empty <=> controlPoints(subject) = {}
    /\ (subject.tag \in {"LineString", "MultiPoint"} /\ ~accPt.empty) =>
         /\ accPt.xy \in controlPoints(subject)
         /\ Intersects(accPt, subject) = "true"

C24_Witness ==
  /\ accOp = "PointOnSurface"
  /\ subject.tag = "LineString"
  /\ Len(subject.seq) = 2
  /\ ~accPt.empty
  /\ accPt.xy = subject.seq[1]

\* C25: the tree BulkLoad returns does not depend on what the node taken
\* from the pool held before: the nodes bulkNode makes are internal nodes,
\* the nodes of the bottom level are leaves, and every search gives what it
\* gives on the tree built from new nodes.
C25_TreeDoesNotDependOnThePool ==
  (rtDone = "load" /\ rtItems # <<>>) =>
    /\ leavesOnlyAtLevel(tree.root, calculateLevels(Len(rtItems)))
    /\ \A q \in QueryBoxes :
         RangeSearch(tree, q) = RangeSearch(BulkLoad(rtItems, NewNode), q)

\* C26: calculateLevels(n) is the least L >= 1 with 4^L >= n for every
\* item count n >= 1; the leaves of the tree BulkLoad builds from n items
\* are all at depth L; and the box of every entry of an internal node is
\* the least box around the entries of the entry's child.
C26_LevelsAndBoxes ==
  /\ \A n \in 1..MaxCount : calculateLevels(n) = leastLevels(n)
  /\ (rtDone = "load" /\ rtItems # <<>>) =>
       /\ leafDepths(tree.root, 1) = {leastLevels(Len(rtItems))}
       /\ \A n \in nodesBelow(tree.root) :
            ~n.isLeaf => \A i \in 1..n.numEntries :
                           n.entries[i].box = boxOfEntries(n.entries[i].child)

C26_Witness ==
  /\ rtDone = "load"
  /\ Len(rtItems) = 5
  /\ calculateLevels(Len(rtItems)) = 2
  /\ leafDepths(tree.root, 1) = {2}
  /\ tree.root.entries[2].box = NewBox(0, 0, 3, 3)

\* C27: hasIntersectionBetweenLines reports an intersection exactly when
\* some line of the first list and some line of the second share a point,
\* with and without the extension: a search that a callback stops loses no
\* result and makes none up.
C27_BetweenLinesIsBruteForce ==
  blDone = "called" =>
    (blOut.hit <=> meetingPairs(treeLines, probeLines) # {})

C27_Witness ==
  /\ blDone = "called"
  /\ Len(treeLines) = 2
  /\ Len(probeLines) = 2
  /\ ~populate
  /\ meetingPairs(treeLines, probeLines) = {<<2, 1>>, <<1, 2>>, <<2, 2>>}
  /\ blOut.hit

\* C28: with populateExtension, multiplePoints is true exactly when the
\* lines of the two lists share more than one point (two contacts at
\* different points, or an overlap of positive length); when they share
\* exactly one point, singlePoint is that point.
C28_MultiplePointsIffMoreThanOne ==
  (blDone = "called" /\ populate) =>
    /\ \A pr \in meetingPairs(treeLines, probeLines) :
         \E h \in sharedPoints(treeLines, probeLines) :
           onHalfGrid(h, treeLines[pr[1]]) /\ onHalfGrid(h, probeLines[pr[2]])
    /\ blOut.multiplePoints <=> Cardinality(sharedPoints(treeLines, probeLines)) > 1
    /\ (blOut.hit /\ ~blOut.multiplePoints) =>
         \E h \in sharedPoints(treeLines, probeLines) : isPoint(blOut.singlePoint, h)

C28_Witness ==
  /\ blDone = "called"
  /\ populate
  /\ Cardinality(meetingPairs(treeLines, probeLines)) = 2
  /\ Cardinality(sharedPoints(treeLines, probeLines)) = 1
  /\ blOut.hit
  /\ ~blOut.multiplePoints
  /\ isPoint(blOut.singlePoint, <<4, 0>>)

\* C29: Intersects is false, and does not panic, whenever one of its two
\* operands is an empty geometry: an empty Point, LineString or Polygon, a
\* multi-geometry or a GeometryCollection without children or with empty
\* children only.
C29_EmptyOperandNeverIntersects ==
  (hasNoPoint(ga) \/ hasNoPoint(gb)) =>
    /\ hit \in {"none", "false"}
    /\ hitSwapped \in {"none", "false"}

C29_Witness ==
  /\ hasNoPoint(ga)
  /\ ga.tag = "GeometryCollection"
  /\ Len(ga.geoms) = 2
  /\ gb.tag = "Polygon"
  /\ ~hasNoPoint(gb)
  /\ hit = "false"
  /\ hitSwapped = "false"

\* C30: when the rings of a call of NewPolygon are three or more, and every
\* two of them have one and the same point in common and no other, the
\* graph NewPolygon builds has one vertex for that point with one edge to
\* each ring and nothing else, so it has no cycle, and NewPolygon does not
\* return the error of a disconnected interior.
C30_SharedPointIsOneVertex ==
  (/\ polyDone = "new"
   /\ Len(ringsOfCall) >= 3
   /\ \E p \in commonPoints(ringsOfCall[1], ringsOfCall[2]) :
        \A i, j \in 1..Len(ringsOfCall) :
          i < j => commonPoints(ringsOfCall[i], ringsOfCall[j]) = {p})
    => LET n == Len(ringsOfCall)
           g == ringGraph(ringsOfCall, ringPairs(n), <<>>, {})
       IN  /\ ~g.multiple
           /\ g.edges = { {n, i} : i \in 0..(n - 1) }
           /\ ~hasCycle(g.edges)
           /\ polyErr # ErrNotConnected

\* C30 witness: two holes and the outer ring that all pass through (2, 2)
\* and have no other point in common were accepted.
C30_Witness ==
  /\ polyDone = "new" /\ polyErr = "nil"
  /\ Len(holeRings) = 2
  /\ \A i, j \in 1..3 :
       i < j => commonPoints(ringsOfCall[i], ringsOfCall[j]) = {NewXY(2, 2)}

====
